---- MODULE Spec2Model ----
(***************************************************************************)
(* Conversation context management of the Discord bot: the Redis-backed    *)
(* history and summary records (ConversationContext), the Chroma-backed    *)
(* similarity index (VectorStore) and the PERSIST step of a turn.          *)
(*                                                                         *)
(* Every `await` of the source is a step boundary: a task (one in-flight   *)
(* call of a public method) advances one awaited store/model call at a     *)
(* time, and tasks interleave freely, as promises do on the event loop.    *)
(***************************************************************************)
EXTENDS Integers, Sequences, FiniteSets, TLC

\* ---------------------------------------------------------------- bounds
Threads == {"A", "B"}
Procs == {1, 2}
MaxPairs == 2          \* largest configured REDIS_MAX_HISTORY_LENGTH explored
MaxOps == 3            \* calls started in one run of Spec
MaxConcurrentOps == 2  \* calls started in one run of SpecConcurrent
MaxTurns == 2          \* calls started in one run of SpecPersist
MaxIndexOps == 3       \* calls started in one run of SpecIndex
MaxJudgeOps == 2       \* calls started in one run of SpecJudge
MaxMessages == 2       \* messages handled in one run of SpecTurn
MaxLifecycleOps == 3   \* calls of initialize, getSummary and disconnect in SpecLifecycle
MaxFaultOps == 3       \* calls started in one run of SpecFaults
MaxFaults == 1         \* store calls that throw in one run of SpecFaults
MaxChunkText == 5      \* longest response split in SpecChunks
MaxChunkLimit == 3     \* largest maxLength of splitResponseIntoChunks explored
Texts == {"x", "y"}    \* texts stored in and searched for in the index

\* REDIS_EXPIRATION_TIME, counted in clock ticks (the default is 86400 s)
expirationTime == 2

VARIABLES
    initialized,       \* ConversationContext.initialized
    maxHistoryLength,  \* ConversationContext.maxHistoryLength
    redis,             \* key -> [exists, val, ttl]; ttl = 0: no expiration
    collection,        \* the Chroma collection: a set of metadata records
    task,              \* per process: the call in flight and its locals
    opsLeft,           \* calls that may still start (also the message id source)
    faultsLeft,        \* store calls that may still throw
    sinceWrite         \* key -> ticks since the last set/expire on the key

vars == <<initialized, maxHistoryLength, redis, collection, task, opsLeft,
          faultsLeft, sinceWrite>>

\* ------------------------------------------------------------- strings
\* A string is a sequence of one-character strings; '' is <<>>.
IsSpace(c) == c \in {" ", "\n"}

RECURSIVE TrimStart(_)
TrimStart(s) ==
    IF s = <<>> THEN <<>>
    ELSE IF IsSpace(Head(s)) THEN TrimStart(Tail(s)) ELSE s

RECURSIVE TrimEnd(_)
TrimEnd(s) ==
    IF s = <<>> THEN <<>>
    ELSE IF IsSpace(s[Len(s)]) THEN TrimEnd(SubSeq(s, 1, Len(s) - 1)) ELSE s

\* String.prototype.trim
trim(s) == TrimEnd(TrimStart(s))

\* ---------------------------------------------------------------- JSON
\* JSON.stringify of an array of {role, content}: a token sequence
\* "[" role content role content ... "]".
RECURSIVE StringifyEntries(_)
StringifyEntries(h) ==
    IF h = <<>> THEN <<>>
    ELSE <<Head(h).role, Head(h).content>> \o StringifyEntries(Tail(h))

JSONstringify(h) == <<"[">> \o StringifyEntries(h) \o <<"]">>

\* Is the text a well-formed array of entries?
JSONvalid(s) ==
    /\ Len(s) >= 2
    /\ s[1] = "["
    /\ s[Len(s)] = "]"
    /\ (Len(s) - 2) % 2 = 0
    /\ \A i \in 2..(Len(s) - 1) : s[i] \notin {"[", "]"}

\* JSON.parse of a valid text
JSONparse(s) ==
    [i \in 1..((Len(s) - 2) \div 2) |->
        [role |-> s[2 * i], content |-> s[2 * i + 1]]]

\* ------------------------------------------------------------ the store
Types == {"history", "summary"}

\* a key that does not depend on the thread
getThreadKey_Shared(threadId, type) == <<"thread", "A", type>>

\* getThreadKey: `thread:${threadId}:${type}`
getThreadKey(threadId, type) == <<"thread", threadId, type>>

Keys == {getThreadKey(t, ty) : t \in Threads, ty \in Types}

Absent == [exists |-> FALSE, val |-> <<>>, ttl |-> 0]

\* client.set(key, value): SET stores the value and discards any expiration
RedisSet(r, k, v) == [r EXCEPT ![k] = [exists |-> TRUE, val |-> v, ttl |-> 0]]

\* client.expire(key, seconds): no effect on a missing key
RedisExpire(r, k, secs) ==
    IF r[k].exists THEN [r EXCEPT ![k].ttl = secs] ELSE r

\* client.del(key)
RedisDel(r, k) == [r EXCEPT ![k] = Absent]

\* client.get(key): null for a missing key
RedisIsNull(r, k) == ~r[k].exists


\* getConversationHistory: [] for a missing key, a failed read or bad JSON
getConversationHistory(r, threadId, readOk) ==
    LET k == getThreadKey(threadId, "history") IN
    IF ~readOk \/ RedisIsNull(r, k) \/ r[k].val = <<>> THEN <<>>
    ELSE IF JSONvalid(r[k].val) THEN JSONparse(r[k].val) ELSE <<>>

\* getSummary: `summary || ''`, and '' for a failed read
getSummary(r, threadId, readOk) ==
    LET k == getThreadKey(threadId, "summary") IN
    IF ~readOk \/ RedisIsNull(r, k) THEN <<>> ELSE r[k].val

\* Array.prototype.slice(-n): the last n elements; slice(-0) is slice(0)
SliceLast(s, n) ==
    IF n = 0 \/ Len(s) <= n THEN s ELSE SubSeq(s, Len(s) - n + 1, Len(s))

\* a saveConversation that appends without limiting the length
TrimmedHistory_NoLimit(currentHistory, userMessage, botResponse, maxLen) ==
    currentHistory \o
        <<[role |-> "user", content |-> userMessage],
          [role |-> "assistant", content |-> botResponse]>>

\* a saveConversation whose limit is off by one entry
TrimmedHistory_OffByOne(currentHistory, userMessage, botResponse, maxLen) ==
    SliceLast(currentHistory \o
        <<[role |-> "user", content |-> userMessage],
          [role |-> "assistant", content |-> botResponse]>>, maxLen * 2 + 1)

\* a saveConversation that does not start from the stored history
TrimmedHistory_Overwrite(currentHistory, userMessage, botResponse, maxLen) ==
    SliceLast(<<[role |-> "user", content |-> userMessage],
                [role |-> "assistant", content |-> botResponse]>>, maxLen * 2)

\* saveConversation, lines 96-103: append the pair, keep the newest entries
TrimmedHistory(currentHistory, userMessage, botResponse, maxLen) ==
    LET newHistory == currentHistory \o
            <<[role |-> "user", content |-> userMessage],
              [role |-> "assistant", content |-> botResponse]>>
    IN SliceLast(newHistory, maxLen * 2)

\* ------------------------------------------------------ similarity index
Metadata(threadId, messageId, userMessage, botResponse) ==
    [threadId |-> threadId, messageId |-> messageId,
     userMessage |-> userMessage, botResponse |-> botResponse]

\* the id of an entry: `${threadId}-${messageId}`
EntryId(e) == <<e.threadId, e.messageId>>

\* storeConversation: collection.add; an id already present adds nothing
storeConversation(c, threadId, messageId, userMessage, botResponse) ==
    LET e == Metadata(threadId, messageId, userMessage, botResponse) IN
    IF \E x \in c : EntryId(x) = EntryId(e) THEN c ELSE c \cup {e}

\* the `where: { threadId }` filter of query and delete
WhereThread(c, threadId) == {e \in c : e.threadId = threadId}

\* a search without the thread filter
searchSimilarConversations_NoFilter(c, threadId, limit) ==
    LET n == IF Cardinality(c) < limit THEN Cardinality(c) ELSE limit
    IN {res \in SUBSET c : Cardinality(res) = n}

\* searchSimilarConversations: the possible result sets of
\* collection.query({nResults: limit, where: {threadId}}); which of the
\* thread's entries are nearest is decided by the embedding backend
searchSimilarConversations(c, threadId, limit) ==
    LET hits == WhereThread(c, threadId)
        n == IF Cardinality(hits) < limit THEN Cardinality(hits) ELSE limit
    IN {res \in SUBSET hits : Cardinality(res) = n}

\* a cleanup that leaves the index alone
deleteThreadConversations_None(c, threadId) == c

\* deleteThreadConversations: collection.delete({where: {threadId}})
deleteThreadConversations(c, threadId) == c \ WhereThread(c, threadId)

SearchLimits == {1, 3}

\* ------------------------------------------------------------ the model
\* model.respond for the summary prompt: it throws, or returns a text
ModelOutputs == {<<>>, <<" ">>, <<" ", "t", " ">>}

\* the texts of a call: distinct messages carry distinct texts
UserMessage(mid) == "q" \o ToString(mid)
BotResponse(mid) == "r" \o ToString(mid)
\* the response after verification or cleaning substituted another text
Substituted(mid) == "v" \o ToString(mid)

\* the summaries a caller may pass to saveSummary
SummaryTexts == {<<>>, <<"s">>}

\* ------------------------------------------------------------ JS values
\* a value of a parsed JSON object: undefined (field missing), a boolean,
\* a number or a string
Undefined == [ty |-> "undefined", b |-> FALSE, n |-> 0, s |-> ""]
Bool(b) == [ty |-> "boolean", b |-> b, n |-> 0, s |-> ""]
Num(n) == [ty |-> "number", b |-> FALSE, n |-> n, s |-> ""]
Str(s) == [ty |-> "string", b |-> FALSE, n |-> 0, s |-> s]

\* ToBoolean: undefined, false, 0 and '' are falsy
Truthy(v) ==
    CASE v.ty = "boolean" -> v.b
      [] v.ty = "number" -> v.n # 0
      [] v.ty = "string" -> v.s # ""
      [] OTHER -> FALSE

\* the JS expression `v || d`
OrElse(v, d) == IF Truthy(v) THEN v ELSE d

\* ------------------------------------------------- the judge's raw answer
\* The content of a model answer is a sequence of tokens: an opening
\* brace, a closing brace, a JSON member "key": value, or other text.
Open == [tok |-> "{", key |-> "", val |-> Undefined]
Close == [tok |-> "}", key |-> "", val |-> Undefined]
Prose == [tok |-> "text", key |-> "", val |-> Undefined]
Member(k, v) == [tok |-> "member", key |-> k, val |-> v]

FieldNames == {"isNewTopic", "similarity", "analysis", "shouldResetContext",
               "isReliable", "confidenceScore", "improvedResponse",
               "isContaminated", "contaminationScore", "cleanedResponse"}

\* a function either returns a value or throws
Return(v) == [threw |-> FALSE, value |-> v]
Throw == [threw |-> TRUE, value |-> Undefined]

\* the positions of a token in a text
Positions(text, tk) == {i \in 1..Len(text) : text[i] = tk}

Min(S) == CHOOSE x \in S : \A y \in S : x <= y
Max(S) == CHOOSE x \in S : \A y \in S : x >= y

\* text.match(/{[\s\S]*}/): from the first opening brace to the last
\* closing brace after it; <<>> when there is no match
RegexMatch(text) ==
    LET opens == Positions(text, Open)
        closes == Positions(text, Close)
    IN IF opens # {} /\ closes # {} /\ Min(opens) < Max(closes)
       THEN SubSeq(text, Min(opens), Max(closes))
       ELSE <<>>

\* JSON.parse of a text that starts and ends with a brace: an object when
\* everything between the braces is a member, a SyntaxError otherwise
ParsesAsObject(m) ==
    \A i \in 2..(Len(m) - 1) : m[i].tok = "member"

\* the parsed object: every field name to its value (the last member of
\* that name wins), Undefined when the member is missing
ObjectOf(m) ==
    [k \in FieldNames |->
        LET at == {i \in 2..(Len(m) - 1) : m[i].key = k} IN
        IF at = {} THEN Undefined ELSE m[Max(at)].val]

\* an extraction that treats an answer without JSON as an empty object
extractJsonFromText_EmptyObject(text) ==
    LET m == RegexMatch(text) IN
    IF m # <<>> /\ ParsesAsObject(m) THEN Return(ObjectOf(m))
    ELSE Return([k \in FieldNames |-> Undefined])

\* extractJsonFromText: the parsed object, or a throw when there is no
\* match or the match is not JSON
extractJsonFromText(text) ==
    LET m == RegexMatch(text) IN
    IF m # <<>>
    THEN IF ParsesAsObject(m) THEN Return(ObjectOf(m)) ELSE Throw
    ELSE Throw

\* what model.respond does: it throws, or answers with a content
Fails == [fails |-> TRUE, content |-> <<>>]
Answers(text) == [fails |-> FALSE, content |-> text]

\* ------------------------------------------------------- the judgments
\* the neutral assessment of the two catch blocks of detectTopicChange
TopicDefault(analysis) ==
    [isNewTopic |-> Bool(FALSE), similarity |-> Num(50),
     analysis |-> Str(analysis), shouldResetContext |-> Bool(FALSE)]

\* detectTopicChange, given what model.respond did
detectTopicChange(reply) ==
    IF reply.fails THEN Return(TopicDefault("error"))
    ELSE LET result == extractJsonFromText(reply.content) IN
         IF result.threw THEN Return(TopicDefault("analysis failed"))
         ELSE Return(
            [isNewTopic |-> OrElse(result.value["isNewTopic"], Bool(FALSE)),
             similarity |-> OrElse(result.value["similarity"], Num(0)),
             analysis |-> OrElse(result.value["analysis"], Str("")),
             shouldResetContext |->
                 OrElse(result.value["shouldResetContext"], Bool(FALSE))])

\* the assessment of the catch blocks of verifyResponse
VerifyDefault(response) ==
    [isReliable |-> Bool(FALSE), verifiedResponse |-> Str(response),
     confidenceScore |-> Num(0)]

\* a verifier that substitutes only on an explicit isReliable = false
VerifyParsed_Strict(response, reply) ==
    LET verificationResult == extractJsonFromText(reply.content) IN
    IF verificationResult.threw THEN Return(VerifyDefault(response))
    ELSE IF /\ verificationResult.value["isReliable"] = Bool(FALSE)
            /\ Truthy(verificationResult.value["improvedResponse"])
    THEN Return(
       [isReliable |-> Bool(FALSE),
        verifiedResponse |-> verificationResult.value["improvedResponse"],
        confidenceScore |->
            OrElse(verificationResult.value["confidenceScore"], Num(0))])
    ELSE Return(
       [isReliable |->
            OrElse(verificationResult.value["isReliable"], Bool(FALSE)),
        verifiedResponse |-> Str(response),
        confidenceScore |->
            OrElse(verificationResult.value["confidenceScore"], Num(0))])

\* verifyResponse, lines 62-89: the judgment is parsed and applied
VerifyParsed(response, reply) ==
    LET verificationResult == extractJsonFromText(reply.content) IN
    IF verificationResult.threw THEN Return(VerifyDefault(response))
    ELSE IF /\ ~Truthy(verificationResult.value["isReliable"])
            /\ Truthy(verificationResult.value["improvedResponse"])
    THEN Return(
       [isReliable |-> Bool(FALSE),
        verifiedResponse |-> verificationResult.value["improvedResponse"],
        confidenceScore |->
            OrElse(verificationResult.value["confidenceScore"], Num(0))])
    ELSE Return(
       [isReliable |->
            OrElse(verificationResult.value["isReliable"], Bool(FALSE)),
        verifiedResponse |-> Str(response),
        confidenceScore |->
            OrElse(verificationResult.value["confidenceScore"], Num(0))])

\* a verifyResponse without the outer try/catch
verifyResponse_NoCatch(contextData, response, reply) ==
    IF contextData.null \/ reply.fails THEN Throw
    ELSE VerifyParsed(response, reply)

\* verifyResponse, given what model.respond did; reading
\* contextData.question of a null contextData throws inside the try
verifyResponse(contextData, response, reply) ==
    IF contextData.null \/ reply.fails THEN Return(VerifyDefault(response))
    ELSE VerifyParsed(response, reply)

\* a detector that never hands on the cleaned response of the model
detectContextContamination_NoCleaned(proposedResponse, reply) ==
    IF reply.fails
    THEN Return([isContaminated |-> Bool(FALSE),
                 contaminationScore |-> Num(0),
                 cleanedResponse |-> Undefined])
    ELSE LET result == extractJsonFromText(reply.content) IN
         IF result.threw
         THEN Return([isContaminated |-> Bool(FALSE),
                      contaminationScore |-> Num(0),
                      cleanedResponse |-> Str(proposedResponse)])
         ELSE Return(
            [isContaminated |->
                 OrElse(result.value["isContaminated"], Bool(FALSE)),
             contaminationScore |->
                 OrElse(result.value["contaminationScore"], Num(0)),
             cleanedResponse |-> Str(proposedResponse)])

\* detectContextContamination, given what model.respond did
detectContextContamination(proposedResponse, reply) ==
    IF reply.fails
    THEN Return([isContaminated |-> Bool(FALSE),
                 contaminationScore |-> Num(0),
                 cleanedResponse |-> Undefined])
    ELSE LET result == extractJsonFromText(reply.content) IN
         IF result.threw
         THEN Return([isContaminated |-> Bool(FALSE),
                      contaminationScore |-> Num(0),
                      cleanedResponse |-> Str(proposedResponse)])
         ELSE Return(
            [isContaminated |->
                 OrElse(result.value["isContaminated"], Bool(FALSE)),
             contaminationScore |->
                 OrElse(result.value["contaminationScore"], Num(0)),
             cleanedResponse |->
                 OrElse(result.value["cleanedResponse"],
                        Str(proposedResponse))])

\* a reset rule with inclusive thresholds
shouldResetContext_Inclusive(similarity, contaminationScore) ==
    similarity <= 30 \/ contaminationScore >= 70

\* shouldResetContext
shouldResetContext(similarity, contaminationScore) ==
    similarity < 30 \/ contaminationScore > 70

\* the scores the reset rule is called with
ScoreSamples == {0, 29, 30, 31, 69, 70, 71, 100}

\* ------------------------------------------- the answers a judge may give
\* a member that is missing, or present with one of the values
Optional(name, values) == {<<>>} \cup {<<Member(name, v)>> : v \in values}

Booleans == {Bool(TRUE), Bool(FALSE)}

TopicBodies ==
    {a \o b \o c :
        a \in Optional("isNewTopic", Booleans),
        b \in Optional("similarity", {Num(0), Num(20), Num(150), Str("high")}),
        c \in Optional("shouldResetContext", {Bool(TRUE)})}

VerifyBodies ==
    {a \o b \o c :
        a \in Optional("isReliable", Booleans),
        b \in Optional("confidenceScore", {Num(80), Num(150)}),
        c \in Optional("improvedResponse", {Str(""), Str("improved")})}

ContaminationBodies ==
    {a \o b \o c :
        a \in Optional("isContaminated", Booleans),
        b \in Optional("contaminationScore", {Num(85), Num(0 - 5)}),
        c \in Optional("cleanedResponse", {Str(""), Str("cleaned")})}

\* the texts a JSON body can come in: alone, inside other text, unclosed,
\* with the braces the wrong way round, malformed, and twice
Wrappings(body) ==
    {<<Open>> \o body \o <<Close>>,
     <<Prose, Open>> \o body \o <<Close, Prose>>,
     <<Open>> \o body,
     <<Close>> \o body \o <<Open>>,
     <<Open, Prose>> \o body \o <<Close>>,
     <<Open>> \o body \o <<Close, Prose, Open>> \o body \o <<Close>>}

\* answers without any brace
NoJsonTexts == {<<>>, <<Prose>>, <<Prose, Prose>>}

Replies(bodies) ==
    {Fails} \cup {Answers(t) : t \in NoJsonTexts}
            \cup {Answers(t) : t \in UNION {Wrappings(b) : b \in bodies}}

TopicReplies == Replies(TopicBodies)
VerifyReplies == Replies(VerifyBodies)
ContaminationReplies == Replies(ContaminationBodies)

\* ---------------------------------------------------------------- tasks
Idle == [pc |-> "idle", op |-> "none", t |-> "A", u |-> "", b |-> "",
         raw |-> "", reset |-> FALSE, mid |-> 0, limit |-> 0, cur |-> <<>>,
         out |-> <<>>, todo |-> <<>>, faulted |-> FALSE, overlap |-> FALSE,
         pre |-> <<>>, seen |-> <<>>, ttlBefore |-> 0, had |-> FALSE, outcome |-> "none",
         result |-> {}, reply |-> Fails, verdict |-> Return(Undefined),
         contextData |-> [null |-> FALSE], similarity |-> 0,
         contaminationScore |-> 0,
         content |-> <<>>, searchQuery |-> "", searchContext |-> "",
         thread |-> FALSE,
         loadingMessage |-> FALSE, trace |-> <<>>, sent |-> <<>>,
         threw |-> FALSE, threwAt |-> "", apologyFailed |-> FALSE,
         isProcessed |-> FALSE, prior |-> FALSE, generated |-> TRUE,
         verified |-> "", chunks |-> <<>>, prompt |-> <<>>,
         latestBotResponse |-> "", authorBot |-> FALSE, guild |-> TRUE,
         before |-> [redis |-> <<>>, collection |-> {}]]

\* the first step of a method
FirstPc(op) ==
    CASE op = "saveConversation" -> "sc_get"
      [] op = "saveSummary" -> "ss_set"
      [] op = "resetSummary" -> "ss_set"
      [] op = "generateAndSaveSummary" -> "gs_get"
      [] op = "persist" -> "gs_get"
      [] op = "clearConversation" -> "cc_delh"
      [] op = "storeConversation" -> "sc_vec"
      [] op = "searchSimilarConversations" -> "q_query"
      [] op = "deleteThreadConversations" -> "dv_delete"
      [] op = "detectTopicChange" -> "dt_model"
      [] op = "verifyResponse" -> "vr_model"
      [] op = "detectContextContamination" -> "dc_model"
      [] OTHER -> "done"

\* a method returns: the caller goes on with its next call, if any; the
\* locals of the finished method are gone
Finish(tk) ==
    IF tk.todo = <<>>
    THEN [tk EXCEPT !.pc = "done", !.cur = <<>>, !.out = <<>>, !.mid = 0]
    ELSE [tk EXCEPT !.pc = FirstPc(Head(tk.todo)), !.todo = Tail(tk.todo),
                    !.cur = <<>>, !.out = <<>>]

\* record, in the other tasks on the thread (in flight, or returned and
\* not yet replaced), that its records were changed under them
Disturb(tk, p, threadId) ==
    [q \in Procs |->
        IF q # p /\ tk[q].pc # "idle" /\ tk[q].t = threadId
        THEN [tk[q] EXCEPT !.overlap = TRUE] ELSE tk[q]]

\* a store call either succeeds or throws (a bounded number of times)
Outcomes == {TRUE, FALSE}
MayFail(ok) == ok \/ faultsLeft > 0
Count(ok) == faultsLeft' = IF ok THEN faultsLeft ELSE faultsLeft - 1

InitStore ==
    /\ initialized = FALSE
    /\ maxHistoryLength \in 0..MaxPairs
    /\ redis = [k \in Keys |-> Absent]
    /\ collection = {}
    /\ task = [p \in Procs |-> Idle]
    /\ sinceWrite = [k \in Keys |-> 0]

Init ==
    /\ InitStore
    /\ opsLeft = MaxOps
    /\ faultsLeft = 0

InitConcurrent ==
    /\ InitStore
    /\ opsLeft = MaxConcurrentOps
    /\ faultsLeft = 0

InitPersist ==
    /\ InitStore
    /\ opsLeft = MaxTurns
    /\ faultsLeft = 0

InitIndex ==
    /\ InitStore
    /\ opsLeft = MaxIndexOps
    /\ faultsLeft = 0

InitJudge ==
    /\ InitStore
    /\ opsLeft = MaxJudgeOps
    /\ faultsLeft = 0

InitTurn ==
    /\ InitStore
    /\ opsLeft = MaxMessages
    /\ faultsLeft = 0

InitFaults ==
    /\ InitStore
    /\ opsLeft = MaxFaultOps
    /\ faultsLeft = MaxFaults

InitLifecycle ==
    /\ InitStore
    /\ opsLeft = MaxLifecycleOps
    /\ faultsLeft = 0

\* main: await conversationContext.initialize()
initialize ==
    /\ ~initialized
    /\ initialized' = TRUE
    /\ UNCHANGED <<maxHistoryLength, redis, collection, task, opsLeft,
                   faultsLeft, sinceWrite>>

\* a caller invokes a public method with the given arguments
CanBegin(p) ==
    /\ task[p].pc \in {"idle", "done"}
    /\ opsLeft > 0

\* (if (!this.initialized) await this.initialize() comes first)
Begin(p, op, fields) ==
    /\ opsLeft' = opsLeft - 1
    /\ task' = [task EXCEPT ![p] =
          [fields EXCEPT !.pc = FirstPc(op), !.op = op, !.mid = opsLeft,
                         !.u = IF fields.u = "" THEN UserMessage(opsLeft) ELSE @,
                         !.raw = BotResponse(opsLeft),
                         !.b = IF fields.b = "" THEN BotResponse(opsLeft)
                               ELSE Substituted(opsLeft)]]
    /\ initialized' = TRUE
    /\ UNCHANGED <<maxHistoryLength, redis, collection, faultsLeft,
                   sinceWrite>>

\* one awaited Redis call on key k by task p: on success the store becomes
\* r2 and the task goes on to pc2; when the call throws, the enclosing
\* catch logs it and the method returns
RedisStep(p, k, r2, pc2) ==
    \E ok \in Outcomes :
        /\ MayFail(ok)
        /\ Count(ok)
        /\ IF ok
           THEN /\ redis' = r2
                /\ sinceWrite' = [sinceWrite EXCEPT ![k] = 0]
                /\ task' = [Disturb(task, p, task[p].t) EXCEPT ![p] =
                      IF pc2 = "return" THEN Finish(task[p])
                      ELSE IF pc2 \in {"sc_expire", "ss_expire"}
                      THEN [task[p] EXCEPT !.pc = pc2, !.ttlBefore = redis[k].ttl]
                      ELSE [task[p] EXCEPT !.pc = pc2]]
           ELSE /\ UNCHANGED <<redis, sinceWrite>>
                /\ task' = [task EXCEPT ![p] =
                      Finish([task[p] EXCEPT !.faulted = TRUE])]

\* ---------------------------------------------------- saveConversation
call_saveConversation(p) ==
    /\ CanBegin(p)
    /\ \E t \in Threads :
           Begin(p, "saveConversation", [Idle EXCEPT !.t = t])

\* const currentHistory = await this.getConversationHistory(threadId)
saveConversation_read(p) ==
    /\ task[p].pc = "sc_get"
    /\ \E ok \in Outcomes :
        /\ MayFail(ok)
        /\ Count(ok)
        /\ task' = [task EXCEPT
              ![p].pc = "sc_set",
              ![p].cur = getConversationHistory(redis, task[p].t, ok),
              ![p].seen = getConversationHistory(redis, task[p].t, ok),
              ![p].faulted = @ \/ ~ok]
    /\ UNCHANGED <<initialized, maxHistoryLength, redis, collection, opsLeft,
                   sinceWrite>>

\* a saveConversation that appends to the history stored at the time of
\* the write instead of the history it read
saveConversation_set_Append(p) ==
    LET tk == task[p]
        k == getThreadKey(tk.t, "history")
        trimmedHistory == TrimmedHistory(getConversationHistory(redis, tk.t, TRUE),
                                         tk.u, tk.b, maxHistoryLength)
    IN
    /\ tk.pc = "sc_set"
    /\ RedisStep(p, k, RedisSet(redis, k, JSONstringify(trimmedHistory)),
                 "sc_expire")
    /\ UNCHANGED <<initialized, maxHistoryLength, collection, opsLeft>>

\* await this.client.set(key, JSON.stringify(trimmedHistory))
saveConversation_set(p) ==
    LET tk == task[p]
        k == getThreadKey(tk.t, "history")
        trimmedHistory == TrimmedHistory(tk.cur, tk.u, tk.b, maxHistoryLength)
    IN
    /\ tk.pc = "sc_set"
    /\ RedisStep(p, k, RedisSet(redis, k, JSONstringify(trimmedHistory)),
                 "sc_expire")
    /\ UNCHANGED <<initialized, maxHistoryLength, collection, opsLeft>>

\* a saveConversation that keeps the expiration the record had
saveConversation_expire_KeepRemaining(p) ==
    LET k == getThreadKey(task[p].t, "history")
        secs == IF task[p].ttlBefore > 0 THEN task[p].ttlBefore
                ELSE expirationTime
    IN
    /\ task[p].pc = "sc_expire"
    /\ RedisStep(p, k, RedisExpire(redis, k, secs), "sc_vec")
    /\ UNCHANGED <<initialized, maxHistoryLength, collection, opsLeft>>

\* await this.client.expire(key, this.expirationTime)
saveConversation_expire(p) ==
    LET k == getThreadKey(task[p].t, "history") IN
    /\ task[p].pc = "sc_expire"
    /\ RedisStep(p, k, RedisExpire(redis, k, expirationTime), "sc_vec")
    /\ UNCHANGED <<initialized, maxHistoryLength, collection, opsLeft>>

\* vectorStore.storeConversation, called directly
call_storeConversation(p) ==
    /\ CanBegin(p)
    /\ \E t \in Threads, u \in Texts :
           Begin(p, "storeConversation", [Idle EXCEPT !.t = t, !.u = u])

\* await vectorStore.storeConversation(threadId, messageId, ...): a throw
\* of collection.add is caught inside storeConversation
saveConversation_store(p) ==
    LET tk == task[p] IN
    /\ tk.pc = "sc_vec"
    /\ \E ok \in Outcomes :
        /\ MayFail(ok)
        /\ Count(ok)
        /\ collection' = IF ok
              THEN storeConversation(collection, tk.t, tk.mid, tk.u, tk.b)
              ELSE collection
        /\ task' = [Disturb(task, p, tk.t) EXCEPT
                        ![p] = Finish([tk EXCEPT !.faulted = @ \/ ~ok])]
    /\ UNCHANGED <<initialized, maxHistoryLength, redis, opsLeft, sinceWrite>>

\* ---------------------------------------------------------- saveSummary
call_saveSummary(p) ==
    /\ CanBegin(p)
    /\ \E t \in Threads, s \in SummaryTexts :
           Begin(p, "saveSummary", [Idle EXCEPT !.t = t, !.out = s])

\* a saveSummary that does not store an empty summary
saveSummary_set_SkipEmpty(p) ==
    LET k == getThreadKey(task[p].t, "summary") IN
    /\ task[p].pc = "ss_set"
    /\ RedisStep(p, k, IF task[p].out = <<>> THEN redis
                       ELSE RedisSet(redis, k, task[p].out), "ss_expire")
    /\ UNCHANGED <<initialized, maxHistoryLength, collection, opsLeft>>

\* a saveSummary that appends the summary to the stored one
saveSummary_set_Concat(p) ==
    LET k == getThreadKey(task[p].t, "summary") IN
    /\ task[p].pc = "ss_set"
    /\ RedisStep(p, k, RedisSet(redis, k, getSummary(redis, task[p].t, TRUE)
                                              \o task[p].out), "ss_expire")
    /\ UNCHANGED <<initialized, maxHistoryLength, collection, opsLeft>>

\* await this.client.set(key, summary)
saveSummary_set(p) ==
    LET k == getThreadKey(task[p].t, "summary") IN
    /\ task[p].pc = "ss_set"
    /\ RedisStep(p, k, RedisSet(redis, k, task[p].out), "ss_expire")
    /\ UNCHANGED <<initialized, maxHistoryLength, collection, opsLeft>>

\* await this.client.expire(key, this.expirationTime)
saveSummary_expire(p) ==
    LET k == getThreadKey(task[p].t, "summary") IN
    /\ task[p].pc = "ss_expire"
    /\ RedisStep(p, k, RedisExpire(redis, k, expirationTime), "return")
    /\ UNCHANGED <<initialized, maxHistoryLength, collection, opsLeft>>

\* ----------------------------------------------- generateAndSaveSummary
call_generateAndSaveSummary(p) ==
    /\ CanBegin(p)
    /\ \E t \in Threads :
           Begin(p, "generateAndSaveSummary", [Idle EXCEPT !.t = t])

\* let existingSummary = await this.getSummary(threadId)
generateAndSaveSummary_read(p) ==
    /\ task[p].pc = "gs_get"
    /\ \E ok \in Outcomes :
        /\ MayFail(ok)
        /\ Count(ok)
        /\ task' = [task EXCEPT
              ![p].pc = "gs_model",
              ![p].cur = getSummary(redis, task[p].t, ok),
              ![p].pre = getSummary(redis, task[p].t, TRUE),
              ![p].faulted = @ \/ ~ok]
    /\ UNCHANGED <<initialized, maxHistoryLength, redis, collection, opsLeft,
                   sinceWrite>>

\* const prediction = await model.respond(...);
\* const newSummary = prediction.content.trim(); then saveSummary is called.
\* A throw of the model is caught: the method returns ''.
generateAndSaveSummary_respond(p) ==
    /\ task[p].pc = "gs_model"
    /\ \/ task' = [task EXCEPT ![p] = Finish([task[p] EXCEPT !.outcome = "failed"])]
       \/ \E content \in ModelOutputs :
            LET newSummary == trim(content) IN
            task' = [task EXCEPT
                ![p].pc = "ss_set",
                ![p].out = newSummary,
                ![p].outcome = IF newSummary = <<>> THEN "empty" ELSE "text"]
    /\ UNCHANGED <<initialized, maxHistoryLength, redis, collection, opsLeft,
                   faultsLeft, sinceWrite>>

\* ---------------------------------------------------- clearConversation
\* all three stores hold something for the thread
HasRecords(t) ==
    /\ getConversationHistory(redis, t, TRUE) # <<>>
    /\ getSummary(redis, t, TRUE) # <<>>
    /\ WhereThread(collection, t) # {}

call_clearConversation(p) ==
    /\ CanBegin(p)
    /\ \E t \in Threads :
           Begin(p, "clearConversation",
                 [Idle EXCEPT !.t = t, !.had = HasRecords(t)])

\* await this.client.del(historyKey)
clearConversation_delHistory(p) ==
    LET k == getThreadKey(task[p].t, "history") IN
    /\ task[p].pc = "cc_delh"
    /\ RedisStep(p, k, RedisDel(redis, k), "cc_dels")
    /\ UNCHANGED <<initialized, maxHistoryLength, collection, opsLeft>>

\* await this.client.del(summaryKey)
clearConversation_delSummary(p) ==
    LET k == getThreadKey(task[p].t, "summary") IN
    /\ task[p].pc = "cc_dels"
    /\ RedisStep(p, k, RedisDel(redis, k), "dv_delete")
    /\ UNCHANGED <<initialized, maxHistoryLength, collection, opsLeft>>

\* -------------------------------------------- deleteThreadConversations
call_deleteThreadConversations(p) ==
    /\ CanBegin(p)
    /\ \E t \in Threads :
           Begin(p, "deleteThreadConversations", [Idle EXCEPT !.t = t])

\* await this.collection.delete({where: {threadId}}): a throw is caught
\* inside deleteThreadConversations
deleteThreadConversations_delete(p) ==
    LET tk == task[p] IN
    /\ tk.pc = "dv_delete"
    /\ \E ok \in Outcomes :
        /\ MayFail(ok)
        /\ Count(ok)
        /\ collection' = IF ok
              THEN deleteThreadConversations(collection, tk.t)
              ELSE collection
        /\ task' = [Disturb(task, p, tk.t) EXCEPT
                        ![p] = Finish([tk EXCEPT !.faulted = @ \/ ~ok])]
    /\ UNCHANGED <<initialized, maxHistoryLength, redis, opsLeft, sinceWrite>>

\* ------------------------------------------- searchSimilarConversations
call_searchSimilarConversations(p) ==
    /\ CanBegin(p)
    /\ \E t \in Threads, q \in Texts, limit \in SearchLimits :
           Begin(p, "searchSimilarConversations",
                 [Idle EXCEPT !.t = t, !.u = q, !.limit = limit])

\* const results = await this.collection.query(...): a throw yields []
searchSimilarConversations_query(p) ==
    LET tk == task[p] IN
    /\ tk.pc = "q_query"
    /\ \E ok \in Outcomes :
        /\ MayFail(ok)
        /\ Count(ok)
        /\ \E res \in (IF ok
                THEN searchSimilarConversations(collection, tk.t, tk.limit)
                ELSE {{}}) :
              task' = [task EXCEPT ![p] =
                  Finish([tk EXCEPT !.result = res, !.faulted = @ \/ ~ok])]
    /\ UNCHANGED <<initialized, maxHistoryLength, redis, collection, opsLeft,
                   sinceWrite>>

\* ------------------------------------------------------------- PERSIST
\* the calls that follow the summary regeneration in the PERSIST step
PersistCalls(reset) ==
    <<"saveConversation">> \o (IF reset THEN <<"resetSummary">> ELSE <<>>)

\* PERSIST of a turn: regenerate the summary from the raw response, save
\* the pair with the final response, and clear the summary on a reset
persist(p) ==
    /\ CanBegin(p)
    /\ \E t \in Threads, substituted \in BOOLEAN, reset \in BOOLEAN :
           Begin(p, "persist",
                 [Idle EXCEPT !.t = t, !.b = IF substituted THEN "v" ELSE "",
                              !.reset = reset, !.todo = PersistCalls(reset)])

\* ------------------------------------------------------- handleMessage
\* the words of a message; "time" and "weather" stand for the keyword
\* lists of processWeatherAndDateRequests
Contents == {<<"hello">>, <<"what", "time">>, <<"weather", "hello">>}
dateTimeKeywords == {"time"}
weatherKeywords == {"weather"}

\* a rule that looks for weather keywords only
processWeatherAndDateRequests_WeatherOnly(message) ==
    [isProcessed |-> \E i \in 1..Len(message) : message[i] \in weatherKeywords]

\* processWeatherAndDateRequests: isProcessed is set when a date/time
\* keyword or a weather keyword occurs in the message, whatever the
\* weather provider does
processWeatherAndDateRequests(message) ==
    [isProcessed |->
        \/ \E i \in 1..Len(message) : message[i] \in dateTimeKeywords
        \/ \E i \in 1..Len(message) : message[i] \in weatherKeywords]

\* a getModelResponse that answers with an apology text on failure
getModelResponse_Apology(ok, content) ==
    IF ok THEN content ELSE "apology"

\* getModelResponse: the content of the prediction, '' when the model
\* throws
getModelResponse(ok, content) ==
    IF ok THEN content ELSE ""

\* splitResponseIntoChunks as handleMessage uses it: one message for a
\* response of at most 2000 characters, several for a longer one
ChunksToSend(response, long) ==
    IF long THEN <<response \o "/1", response \o "/2">> ELSE <<response>>

ErrorMessage == "apology"
LoadingText == "loading"

\* the steps section 4.8 puts in front of a step of handleMessage
Via(target) ==
    CASE target = "hm_weather" -> "hm_history"
      [] target = "hm_delete" -> "hm_verify"
      [] OTHER -> target

\* the task appends an event to its trace
Log(tk, event) == [tk EXCEPT !.trace = Append(@, event)]

\* an awaited call threw: control is in the catch block of handleMessage,
\* which deletes the loading message if there is one and sends the
\* apology if there is a thread
Caught(tk, step) ==
    [tk EXCEPT !.threw = TRUE, !.threwAt = step,
               !.pc = IF tk.loadingMessage THEN "hm_catch_delete"
                      ELSE IF tk.thread THEN "hm_catch_send"
                      ELSE "done"]

\* a catch block whose feedback is not guarded: the throw of the delete
\* or of the apology leaves handleMessage
FeedbackCaught_Rethrow(tk) ==
    [tk EXCEPT !.pc = "done", !.outcome = "rejected"]

\* catch (feedbackError): a throw of the delete or of the apology inside
\* the catch block is logged, and handleMessage returns normally
FeedbackCaught(tk) ==
    [tk EXCEPT !.pc = "done"]

\* a step of handleMessage that changes nothing but the locals of the task
TurnStep(p, tk2) ==
    /\ task' = [task EXCEPT ![p] = tk2]
    /\ UNCHANGED <<initialized, maxHistoryLength, redis, collection, opsLeft,
                   faultsLeft, sinceWrite>>

\* the threads the messages of a run arrive in
TurnThreads == {"A"}

\* a handler that ignores only the messages outside a guild
call_handleMessage_GuildOnly(p) ==
    /\ initialized
    /\ task[p].pc \in {"idle", "done"}
    /\ opsLeft > 0
    /\ opsLeft' = opsLeft - 1
    /\ \E t \in TurnThreads, authorBot \in BOOLEAN, guild \in BOOLEAN,
          isThread \in BOOLEAN, content \in Contents :
          LET ignored == ~guild IN
          task' = [task EXCEPT ![p] =
              [Idle EXCEPT
                  !.op = "handleMessage", !.t = t, !.mid = opsLeft,
                  !.u = UserMessage(opsLeft), !.content = content,
                  !.authorBot = authorBot, !.guild = guild,
                  !.before = [redis |-> redis, collection |-> collection],
                  !.thread = ~ignored /\ isThread,
                  !.pc = IF ignored THEN "done"
                         ELSE IF isThread THEN "hm_loading"
                         ELSE "hm_create"]]
    /\ UNCHANGED <<initialized, maxHistoryLength, redis, collection,
                   faultsLeft, sinceWrite>>

\* client.on(Events.MessageCreate, ...): handleMessage(message, model);
\* if (message.author.bot || !message.guild) return
call_handleMessage(p) ==
    /\ initialized
    /\ task[p].pc \in {"idle", "done"}
    /\ opsLeft > 0
    /\ opsLeft' = opsLeft - 1
    /\ \E t \in TurnThreads, authorBot \in BOOLEAN, guild \in BOOLEAN,
          isThread \in BOOLEAN, content \in Contents :
          LET ignored == authorBot \/ ~guild IN
          task' = [task EXCEPT ![p] =
              [Idle EXCEPT
                  !.op = "handleMessage", !.t = t, !.mid = opsLeft,
                  !.u = UserMessage(opsLeft), !.content = content,
                  !.authorBot = authorBot, !.guild = guild,
                  !.before = [redis |-> redis, collection |-> collection],
                  !.thread = ~ignored /\ isThread,
                  !.pc = IF ignored THEN "done"
                         ELSE IF isThread THEN "hm_loading"
                         ELSE "hm_create"]]
    /\ UNCHANGED <<initialized, maxHistoryLength, redis, collection,
                   faultsLeft, sinceWrite>>

\* thread = await channel.threads.create(...)
handleMessage_createThread(p) ==
    /\ task[p].pc = "hm_create"
    /\ \E ok \in Outcomes :
          TurnStep(p, IF ok
              THEN [task[p] EXCEPT !.thread = TRUE, !.pc = "hm_loading"]
              ELSE Caught(task[p], "create"))

\* a handler that asks the model before it has loaded any context
handleMessage_loading_GenerateFirst(p) ==
    /\ task[p].pc = "hm_loading"
    /\ \E ok \in Outcomes :
          TurnStep(p, IF ok
              THEN [Log(task[p], "loading") EXCEPT
                        !.loadingMessage = TRUE,
                        !.sent = Append(@, LoadingText),
                        !.pc = "hm_generate"]
              ELSE Caught(task[p], "loading"))

\* loadingMessage = await thread.send('...')
handleMessage_loading(p) ==
    /\ task[p].pc = "hm_loading"
    /\ \E ok \in Outcomes :
          TurnStep(p, IF ok
              THEN [Log(task[p], "loading") EXCEPT
                        !.loadingMessage = TRUE,
                        !.sent = Append(@, LoadingText),
                        !.pc = "hm_summary"]
              ELSE Caught(task[p], "loading"))

\* a handler that runs the Topic-Shift Detector without looking at the
\* history
handleMessage_getSummary_AlwaysDetect(p) ==
    /\ task[p].pc = "hm_summary"
    /\ \E ok \in Outcomes :
        /\ MayFail(ok)
        /\ Count(ok)
        /\ task' = [task EXCEPT ![p] =
              [Log(task[p], "load") EXCEPT
                  !.pre = getSummary(redis, task[p].t, ok),
                  !.pc = "hm_topic"]]
    /\ UNCHANGED <<initialized, maxHistoryLength, redis, collection, opsLeft,
                   sinceWrite>>

\* const compressedContext = await conversationContext.getSummary(threadId)
handleMessage_getSummary(p) ==
    /\ task[p].pc = "hm_summary"
    /\ \E ok \in Outcomes :
        /\ MayFail(ok)
        /\ Count(ok)
        /\ task' = [task EXCEPT ![p] =
              [Log(task[p], "load") EXCEPT
                  !.pre = getSummary(redis, task[p].t, ok),
                  !.pc = Via("hm_weather")]]
    /\ UNCHANGED <<initialized, maxHistoryLength, redis, collection, opsLeft,
                   sinceWrite>>

\* await weatherDateObj.processWeatherAndDateRequests(message.content);
\* the search sub-flow is entered only if (!weatherDateResult.isProcessed)
handleMessage_weather(p) ==
    /\ task[p].pc = "hm_weather"
    /\ LET weatherDateResult == processWeatherAndDateRequests(task[p].content)
       IN TurnStep(p, [Log(task[p], "weather") EXCEPT
              !.isProcessed = weatherDateResult.isProcessed,
              !.pc = IF weatherDateResult.isProcessed THEN "hm_generate"
                     ELSE "hm_query"])

\* generateContext: let searchQuery = await getModelResponse(queryContext)
generateContext_query(p) ==
    /\ task[p].pc = "hm_query"
    /\ \E ok \in Outcomes :
          TurnStep(p, [Log(task[p], "search_query") EXCEPT
              !.searchQuery = getModelResponse(ok, "query"),
              !.pc = "hm_search"])

\* generateContext: const searchResults = await googlePSE.search(...);
\* search returns [] on every failure; without results the context is ''
generateContext_search(p) ==
    /\ task[p].pc = "hm_search"
    /\ \E found \in BOOLEAN :
          TurnStep(p, [Log(task[p], "search") EXCEPT
              !.searchQuery = "",
              !.pc = IF found THEN "hm_summarize" ELSE "hm_generate"])

\* summarizeSearchResults: return await getModelResponse(summaryPrompt)
generateContext_summarize(p) ==
    /\ task[p].pc = "hm_summarize"
    /\ \E ok \in Outcomes :
          TurnStep(p, [Log(task[p], "search_summary") EXCEPT
              !.searchContext = getModelResponse(ok, "found"),
              !.pc = "hm_generate"])

\* the sources of combinedContext, in the order they are appended: the
\* stored summary if (hasCompressedContext), the weather/date facts
\* if (weatherDateResult.isProcessed && contextInfo), the search summary
\* if (searchContext); getContextForQuery is not called, so no similar
\* conversation is ever part of it
combinedContext(compressedContext, isProcessed, searchContext) ==
    (IF Len(compressedContext) > 0 THEN <<"summary">> ELSE <<>>)
    \o (IF isProcessed THEN <<"weather">> ELSE <<>>)
    \o (IF searchContext # "" THEN <<"search">> ELSE <<>>)

\* enhancedQuery: the reference blocks and the question, or the question
\* alone when combinedContext is empty
enhancedQuery(compressedContext, isProcessed, searchContext) ==
    combinedContext(compressedContext, isProcessed, searchContext)
    \o <<"question">>

\* a handler that hands every generated response to the Contamination
\* Detector
handleMessage_generate_AlwaysCheck(p) ==
    /\ task[p].pc = "hm_generate"
    /\ \E ok \in Outcomes, long \in BOOLEAN :
          /\ long => ok
          /\ LET response == getModelResponse(ok, BotResponse(task[p].mid))
             IN TurnStep(p, [Log(task[p], "generation") EXCEPT
                    !.generated = ok,
                    !.prompt = enhancedQuery(task[p].pre, task[p].isProcessed,
                                             task[p].searchContext),
                    !.searchContext = "",
                    !.raw = response,
                    !.verified = response,
                    !.b = response,
                    !.chunks = ChunksToSend(response, long),
                    !.pc = IF ok THEN "hm_contamination" ELSE "hm_delete"])

\* const response = await getModelResponse(enhancedQuery, model, ...)
handleMessage_generate(p) ==
    /\ task[p].pc = "hm_generate"
    /\ \E ok \in Outcomes, long \in BOOLEAN :
          /\ long => ok
          /\ LET response == getModelResponse(ok, BotResponse(task[p].mid))
             IN TurnStep(p, [Log(task[p], "generation") EXCEPT
                    !.generated = ok,
                    !.prompt = enhancedQuery(task[p].pre, task[p].isProcessed,
                                             task[p].searchContext),
                    !.searchContext = "",
                    !.raw = response,
                    !.verified = response,
                    !.b = response,
                    !.chunks = ChunksToSend(response, long),
                    !.pc = IF ok THEN Via("hm_delete") ELSE "hm_delete"])

\* if (loadingMessage) await loadingMessage.delete()
handleMessage_deleteLoading(p) ==
    /\ task[p].pc = "hm_delete"
    /\ \E ok \in Outcomes :
          TurnStep(p, IF ok
              THEN [Log(task[p], "delete_loading") EXCEPT !.pc = "hm_send"]
              ELSE Caught(task[p], "delete_loading"))

\* a handler that regenerates the summary from the response it sent
handleMessage_send_SummaryOfFinal(p) ==
    /\ task[p].pc = "hm_send"
    /\ \E ok \in Outcomes :
          TurnStep(p, IF ~ok THEN Caught(task[p], "send")
              ELSE IF Len(task[p].chunks) > 1
              THEN [task[p] EXCEPT !.sent = Append(@, Head(task[p].chunks)),
                                   !.chunks = Tail(@)]
              ELSE [Log(Log(task[p], "send"), "persist") EXCEPT
                        !.sent = Append(@, Head(task[p].chunks)),
                        !.chunks = <<>>,
                        !.latestBotResponse = task[p].b,
                        !.pc = "gs_get",
                        !.todo = PersistCalls(task[p].reset)])

\* await thread.send(chunk) for every chunk, or await thread.send(response);
\* after the last one the turn is persisted, the summary being regenerated
\* by generateAndSaveSummary(threadId, model, message.content, response)
\* with the response getModelResponse returned
handleMessage_send(p) ==
    /\ task[p].pc = "hm_send"
    /\ \E ok \in Outcomes :
          TurnStep(p, IF ~ok THEN Caught(task[p], "send")
              ELSE IF Len(task[p].chunks) > 1
              THEN [task[p] EXCEPT !.sent = Append(@, Head(task[p].chunks)),
                                   !.chunks = Tail(@)]
              ELSE [Log(Log(task[p], "send"), "persist") EXCEPT
                        !.sent = Append(@, Head(task[p].chunks)),
                        !.chunks = <<>>,
                        !.latestBotResponse = task[p].raw,
                        !.pc = "gs_get",
                        !.todo = PersistCalls(task[p].reset)])

\* catch (error): if (loadingMessage) await loadingMessage.delete(); a
\* throw of it is caught by the inner catch, which ends the handler
handleMessage_catchDelete(p) ==
    /\ task[p].pc = "hm_catch_delete"
    /\ \E ok \in Outcomes :
          TurnStep(p, IF ~ok THEN FeedbackCaught(task[p])
              ELSE [task[p] EXCEPT
                  !.pc = IF task[p].thread THEN "hm_catch_send" ELSE "done"])

\* catch (error): if (thread) await thread.send(errorMessage)
handleMessage_catchSend(p) ==
    /\ task[p].pc = "hm_catch_send"
    /\ \E ok \in Outcomes :
          TurnStep(p, IF ~ok
              THEN FeedbackCaught([task[p] EXCEPT !.apologyFailed = TRUE])
              ELSE [task[p] EXCEPT !.sent = Append(@, ErrorMessage),
                                   !.pc = "done"])

\* ---------------------------------------- the judgments within a turn
\* the answers the judges give within a turn
TurnTopicReplies ==
    {Fails,
     Answers(<<Open, Member("similarity", Num(20)),
               Member("shouldResetContext", Bool(TRUE)), Close>>),
     Answers(<<Open, Member("similarity", Num(80)), Close>>)}

TurnVerifyReplies ==
    {Fails,
     Answers(<<Open, Member("isReliable", Bool(TRUE)),
               Member("confidenceScore", Num(80)), Close>>),
     Answers(<<Open, Member("isReliable", Bool(FALSE)),
               Member("improvedResponse", Str("improved")), Close>>)}

TurnContaminationReplies ==
    {Fails,
     Answers(<<Open, Member("isContaminated", Bool(TRUE)),
               Member("contaminationScore", Num(85)),
               Member("cleanedResponse", Str("cleaned")), Close>>),
     Answers(<<Open, Member("isContaminated", Bool(TRUE)),
               Member("contaminationScore", Num(50)), Close>>),
     Answers(<<Open, Member("isContaminated", Bool(FALSE)),
               Member("contaminationScore", Num(10)),
               Member("cleanedResponse", Str("cleaned")), Close>>)}

\* RESET_CHECK: the flag of the detector, or the decision rule on its
\* similarity
ResetDecision(assessment) ==
    \/ Truthy(assessment.shouldResetContext)
    \/ /\ assessment.similarity.ty = "number"
       /\ shouldResetContext(assessment.similarity.n, 0)

\* the decision rule on the contamination score alone
ResetByContamination(assessment) ==
    /\ assessment.contaminationScore.ty = "number"
    /\ shouldResetContext(100, assessment.contaminationScore.n)

\* CONTAMINATION_CHECK: if contaminated and a cleaned response is
\* supplied, substitute it
FinalResponse(verified, assessment) ==
    IF Truthy(assessment.isContaminated) /\ Truthy(assessment.cleanedResponse)
    THEN assessment.cleanedResponse.s
    ELSE verified

\* the response of the turn becomes the text, in as many messages as before
WithResponse(tk, text) ==
    [tk EXCEPT !.b = text, !.chunks = ChunksToSend(text, Len(tk.chunks) > 1)]

\* START: load the HistoryRecord of the thread
turn_loadHistory(p) ==
    /\ task[p].pc = "hm_history"
    /\ LET prior == getConversationHistory(redis, task[p].t, TRUE) # <<>>
       IN TurnStep(p, [Log(task[p], "load_history") EXCEPT
              !.prior = prior,
              !.pc = IF prior THEN "hm_topic" ELSE "hm_weather"])

\* RESET_CHECK: run the Topic-Shift Detector
turn_resetCheck(p) ==
    /\ task[p].pc = "hm_topic"
    /\ \E reply \in TurnTopicReplies :
          TurnStep(p, [Log(task[p], "reset_check") EXCEPT
              !.reset = ResetDecision(detectTopicChange(reply).value),
              !.pc = "hm_weather"])

\* VERIFICATION: run the Response Verifier on the generated response
turn_verify(p) ==
    /\ task[p].pc = "hm_verify"
    /\ \E reply \in TurnVerifyReplies :
          LET verdict == verifyResponse([null |-> FALSE], task[p].raw, reply)
              verified == verdict.value.verifiedResponse.s
          IN TurnStep(p, [WithResponse(Log(task[p], "verification"), verified)
                 EXCEPT !.verified = verified,
                        !.pc = IF task[p].prior /\ ~task[p].reset
                               THEN "hm_contamination" ELSE "hm_delete"])

\* CONTAMINATION_CHECK: run the Contamination Detector on the verified
\* response
turn_contamination(p) ==
    /\ task[p].pc = "hm_contamination"
    /\ \E reply \in TurnContaminationReplies :
          LET verdict == detectContextContamination(task[p].verified, reply)
              final == FinalResponse(task[p].verified, verdict.value)
          IN TurnStep(p, [WithResponse(Log(task[p], "contamination"), final)
                 EXCEPT !.reply = reply,
                        !.verdict = verdict,
                        !.reset = ResetByContamination(verdict.value),
                        !.pc = "hm_delete"])

\* ------------------------------------------------------ judgment calls
\* a caller invokes one of the judgment functions
BeginJudgment(p, op, fields) ==
    /\ task[p].pc \in {"idle", "done"}
    /\ opsLeft > 0
    /\ opsLeft' = opsLeft - 1
    /\ task' = [task EXCEPT ![p] =
          [fields EXCEPT !.pc = FirstPc(op), !.op = op, !.mid = opsLeft,
                         !.u = UserMessage(opsLeft),
                         !.b = BotResponse(opsLeft)]]
    /\ UNCHANGED <<initialized, maxHistoryLength, redis, collection,
                   faultsLeft, sinceWrite>>

call_detectTopicChange(p) ==
    BeginJudgment(p, "detectTopicChange", Idle)

\* const analysisResponse = await model.respond(...), and what follows
detectTopicChange_respond(p) ==
    /\ task[p].pc = "dt_model"
    /\ \E reply \in TopicReplies :
          task' = [task EXCEPT ![p] =
              Finish([task[p] EXCEPT !.reply = reply,
                                     !.verdict = detectTopicChange(reply)])]
    /\ UNCHANGED <<initialized, maxHistoryLength, redis, collection, opsLeft,
                   faultsLeft, sinceWrite>>

call_verifyResponse(p) ==
    \E isNull \in BOOLEAN :
          BeginJudgment(p, "verifyResponse",
                        [Idle EXCEPT !.contextData = [null |-> isNull]])

\* const verificationResponse = await model.respond(...), and what follows
verifyResponse_respond(p) ==
    /\ task[p].pc = "vr_model"
    /\ \E reply \in VerifyReplies :
          task' = [task EXCEPT ![p] =
              Finish([task[p] EXCEPT
                  !.reply = reply,
                  !.verdict = verifyResponse(task[p].contextData,
                                             task[p].b, reply)])]
    /\ UNCHANGED <<initialized, maxHistoryLength, redis, collection, opsLeft,
                   faultsLeft, sinceWrite>>

call_detectContextContamination(p) ==
    BeginJudgment(p, "detectContextContamination", Idle)

\* const analysisResponse = await model.respond(...), and what follows
detectContextContamination_respond(p) ==
    /\ task[p].pc = "dc_model"
    /\ \E reply \in ContaminationReplies :
          task' = [task EXCEPT ![p] =
              Finish([task[p] EXCEPT
                  !.reply = reply,
                  !.verdict = detectContextContamination(task[p].b, reply)])]
    /\ UNCHANGED <<initialized, maxHistoryLength, redis, collection, opsLeft,
                   faultsLeft, sinceWrite>>

\* shouldResetContext is synchronous: it has returned when it was called
call_shouldResetContext(p) ==
    /\ task[p].pc \in {"idle", "done"}
    /\ \E similarity \in ScoreSamples, contaminationScore \in ScoreSamples :
          BeginJudgment(p, "shouldResetContext",
              [Idle EXCEPT
                  !.similarity = similarity,
                  !.contaminationScore = contaminationScore,
                  !.verdict = Return(Bool(
                      shouldResetContext(similarity, contaminationScore)))])

\* ---------------------------------------------- splitResponseIntoChunks
\* the characters of the responses explored: a letter, a space, a
\* sentence end and a line break
ChunkChars == {"a", " ", ".", "\n"}

RECURSIVE TextsUpTo(_)
TextsUpTo(n) ==
    IF n = 0 THEN {<<>>}
    ELSE LET shorter == TextsUpTo(n - 1)
         IN shorter \cup {Append(text, c) : text \in shorter, c \in ChunkChars}

ChunkTexts == TextsUpTo(MaxChunkText)

\* String.prototype.substring(start, end) and substring(start), 0-based
substring(text, start, end) == SubSeq(text, start + 1, end)
substringFrom(text, start) == SubSeq(text, start + 1, Len(text))

\* String.prototype.lastIndexOf(searchString, position): the largest
\* 0-based index not above position where searchString starts; -1 if none
lastIndexOf(text, searchString, position) ==
    LET found == {i \in 0..position :
                     /\ i + Len(searchString) <= Len(text)
                     /\ SubSeq(text, i + 1, i + Len(searchString)) = searchString}
    IN IF found = {} THEN -1 ELSE Max(found)

\* response.split(/\n\s*\n/): the text is cut at the leftmost line break
\* that is followed, after white space only, by another line break; the
\* match runs to the last such line break
BlankLineEnd(text, i) ==
    LET ends == {k \in (i + 1)..Len(text) :
                    /\ text[k] = "\n"
                    /\ \A j \in i..k : IsSpace(text[j])}
    IN IF text[i] = "\n" /\ ends # {} THEN Max(ends) ELSE 0

RECURSIVE Paragraphs(_)
Paragraphs(text) ==
    LET starts == {i \in 1..Len(text) : BlankLineEnd(text, i) > 0}
    IN IF starts = {} THEN <<text>>
       ELSE <<SubSeq(text, 1, Min(starts) - 1)>>
            \o Paragraphs(substringFrom(text, BlankLineEnd(text, Min(starts))))

PunctuationMarks == {".", "?", "!", ","}

\* findNaturalSplitPoint: behind the last sentence end found at or before
\* index maxLength if that lies beyond 70% of maxLength, else behind the
\* last space found at or before index maxLength, else at maxLength
findNaturalSplitPoint(text, maxLength) ==
    LET punctuationPoint ==
            Max({lastIndexOf(text, <<mark, " ">>, maxLength) :
                    mark \in PunctuationMarks})
        spacePoint == lastIndexOf(text, <<" ">>, maxLength)
    IN IF 10 * punctuationPoint > 7 * maxLength THEN punctuationPoint + 2
       ELSE IF spacePoint > 0 THEN spacePoint + 1
       ELSE maxLength

\* a loop that resumes one character behind the split point
RECURSIVE SplitParagraph_SkipAtSplit(_, _)
SplitParagraph_SkipAtSplit(remainingText, maxLength) ==
    IF Len(remainingText) = 0 THEN <<>>
    ELSE IF Len(remainingText) <= maxLength THEN <<remainingText>>
    ELSE LET splitPoint == findNaturalSplitPoint(remainingText, maxLength)
         IN <<substring(remainingText, 0, splitPoint)>>
            \o SplitParagraph_SkipAtSplit(
                   trim(substringFrom(remainingText, splitPoint + 1)),
                   maxLength)

\* the while loop over a paragraph longer than maxLength
RECURSIVE SplitParagraph(_, _)
SplitParagraph(remainingText, maxLength) ==
    IF Len(remainingText) = 0 THEN <<>>
    ELSE IF Len(remainingText) <= maxLength THEN <<remainingText>>
    ELSE LET splitPoint == findNaturalSplitPoint(remainingText, maxLength)
         IN <<substring(remainingText, 0, splitPoint)>>
            \o SplitParagraph(trim(substringFrom(remainingText, splitPoint)),
                              maxLength)

\* the for loop over the paragraphs, and the push of the last chunk
RECURSIVE CollectChunks(_, _, _, _)
CollectChunks(paragraphs, chunks, currentChunk, maxLength) ==
    IF paragraphs = <<>>
    THEN IF currentChunk # <<>> THEN Append(chunks, currentChunk) ELSE chunks
    ELSE LET paragraph == Head(paragraphs)
             delimiter == IF Len(currentChunk) > 0 THEN <<"\n", "\n">>
                          ELSE <<>>
             potentialLength ==
                 Len(currentChunk) + Len(delimiter) + Len(paragraph)
             saved == IF currentChunk # <<>> THEN Append(chunks, currentChunk)
                      ELSE chunks
         IN IF potentialLength > maxLength
            THEN IF Len(paragraph) > maxLength
                 THEN CollectChunks(Tail(paragraphs),
                          saved \o SplitParagraph(paragraph, maxLength),
                          <<>>, maxLength)
                 ELSE CollectChunks(Tail(paragraphs), saved, paragraph,
                                    maxLength)
            ELSE CollectChunks(Tail(paragraphs), chunks,
                     currentChunk \o delimiter \o paragraph, maxLength)

splitResponseIntoChunks(response, maxLength) ==
    IF response = <<>> \/ Len(response) <= maxLength THEN <<response>>
    ELSE CollectChunks(Paragraphs(response), <<>>, <<>>, maxLength)

\* a response and a maxLength
InitChunks ==
    /\ initialized = FALSE
    /\ maxHistoryLength = 0
    /\ redis = [k \in Keys |-> Absent]
    /\ collection = {}
    /\ sinceWrite = [k \in Keys |-> 0]
    /\ opsLeft = 1
    /\ faultsLeft = 0
    /\ \E response \in ChunkTexts, maxLength \in 1..MaxChunkLimit :
          task = [p \in Procs |->
                     IF p = 1 THEN [Idle EXCEPT !.content = response,
                                                !.limit = maxLength]
                     ELSE Idle]

\* handleMessage: const chunks = splitResponseIntoChunks(response), with
\* the display limit as maxLength
call_splitResponseIntoChunks(p) ==
    /\ task[p].pc = "idle"
    /\ opsLeft > 0
    /\ opsLeft' = opsLeft - 1
    /\ task' = [task EXCEPT
          ![p].op = "splitResponseIntoChunks",
          ![p].chunks = splitResponseIntoChunks(task[p].content, task[p].limit),
          ![p].pc = "done"]
    /\ UNCHANGED <<initialized, maxHistoryLength, redis, collection,
                   faultsLeft, sinceWrite>>

\* ------------------------------------------- the connection lifecycle
\* a call of a method of the context starts; nothing but the task changes
Enter(p, tk2) ==
    /\ task[p].pc \in {"idle", "done"}
    /\ opsLeft > 0
    /\ opsLeft' = opsLeft - 1
    /\ task' = [task EXCEPT ![p] = [tk2 EXCEPT !.mid = opsLeft]]
    /\ UNCHANGED <<initialized, maxHistoryLength, redis, collection,
                   faultsLeft, sinceWrite>>

\* initialize(): if (!this.initialized) the caller goes on to await
\* this.client.connect(); otherwise it returns at once
call_initialize(p) ==
    Enter(p, [Idle EXCEPT !.op = "initialize",
                          !.pc = IF initialized THEN "done" ELSE "in_connect"])

\* getSummary(): if (!this.initialized) await this.initialize(), the lazy
\* initialization every store operation starts with
call_getSummary(p) ==
    \E t \in TurnThreads :
        Enter(p, [Idle EXCEPT !.op = "getSummary", !.t = t,
                              !.pc = IF initialized THEN "gm_get"
                                     ELSE "in_connect"])

\* await this.client.connect() resolves, and this.initialized = true; or
\* it throws, and initialize logs and rethrows: the flag stays as it is
\* and the calling method, which awaits initialize outside its try, throws
initialize_connect(p) ==
    /\ task[p].pc = "in_connect"
    /\ \E ok \in Outcomes :
          /\ initialized' = (ok \/ initialized)
          /\ task' = [task EXCEPT ![p] =
                IF ~ok THEN [@ EXCEPT !.pc = "done", !.outcome = "failed"]
                ELSE IF @.op = "getSummary"
                THEN [@ EXCEPT !.pc = "gm_get", !.outcome = "connected"]
                ELSE [@ EXCEPT !.pc = "done", !.outcome = "connected"]]
    /\ UNCHANGED <<maxHistoryLength, redis, collection, opsLeft, faultsLeft,
                   sinceWrite>>

\* getSummary: const summary = await this.client.get(key)
getSummary_get(p) ==
    /\ task[p].pc = "gm_get"
    /\ \E ok \in Outcomes :
          task' = [task EXCEPT ![p].pre = getSummary(redis, task[p].t, ok),
                               ![p].faulted = ~ok,
                               ![p].pc = "done"]
    /\ UNCHANGED <<initialized, maxHistoryLength, redis, collection, opsLeft,
                   faultsLeft, sinceWrite>>

\* disconnect(): if (this.initialized) the caller goes on to await
\* this.client.disconnect(); otherwise it returns at once
call_disconnect(p) ==
    Enter(p, [Idle EXCEPT !.op = "disconnect",
                          !.pc = IF initialized THEN "ds_disconnect"
                                 ELSE "done"])

\* await this.client.disconnect() resolves, and this.initialized = false;
\* or it throws, and so does disconnect
disconnect_close(p) ==
    /\ task[p].pc = "ds_disconnect"
    /\ \E ok \in Outcomes :
          /\ initialized' = (~ok /\ initialized)
          /\ task' = [task EXCEPT ![p].pc = "done",
                ![p].outcome = IF ok THEN "disconnected" ELSE "failed"]
    /\ UNCHANGED <<maxHistoryLength, redis, collection, opsLeft, faultsLeft,
                   sinceWrite>>

\* ---------------------------------------------------------------- time
\* one clock tick: every expiration counts down, an elapsed key is removed
ExpireKeys(r) ==
    [k \in Keys |->
        IF r[k].exists /\ r[k].ttl = 1 THEN Absent
        ELSE IF r[k].exists /\ r[k].ttl > 1 THEN [r[k] EXCEPT !.ttl = @ - 1]
        ELSE r[k]]

Expiring(r, threadId) ==
    \E ty \in Types : LET k == getThreadKey(threadId, ty) IN
        r[k].exists /\ r[k].ttl = 1

tick ==
    /\ \A p \in Procs : task[p].pc \in {"idle", "done"}
    /\ \E k \in Keys :
          redis[k].exists /\ (redis[k].ttl > 0 \/ sinceWrite[k] < expirationTime)
    /\ redis' = ExpireKeys(redis)
    /\ sinceWrite' = [k \in Keys |->
          IF ~redis'[k].exists THEN 0
          ELSE IF sinceWrite[k] < expirationTime THEN sinceWrite[k] + 1
          ELSE sinceWrite[k]]
    /\ task' = [q \in Procs |->
          IF task[q].pc # "idle" /\ Expiring(redis, task[q].t)
          THEN [task[q] EXCEPT !.overlap = TRUE] ELSE task[q]]
    /\ UNCHANGED <<initialized, maxHistoryLength, collection, opsLeft,
                   faultsLeft>>

\* the steps of the methods of ConversationContext
ContextStep(p) ==
    \/ call_saveConversation(p)
    \/ saveConversation_read(p)
    \/ saveConversation_set(p)
    \/ saveConversation_expire(p)
    \/ saveConversation_store(p)
    \/ call_saveSummary(p)
    \/ saveSummary_set(p)
    \/ saveSummary_expire(p)
    \/ call_generateAndSaveSummary(p)
    \/ generateAndSaveSummary_read(p)
    \/ generateAndSaveSummary_respond(p)
    \/ call_clearConversation(p)
    \/ clearConversation_delHistory(p)
    \/ clearConversation_delSummary(p)
    \/ call_deleteThreadConversations(p)
    \/ deleteThreadConversations_delete(p)

\* one call at a time, and the clock
Next ==
    \/ initialize
    \/ ContextStep(1)
    \/ tick

Spec == Init /\ [][Next]_vars

\* two callers at once: the awaited steps of their calls interleave
NextConcurrent ==
    \/ initialize
    \/ \E p \in Procs : ContextStep(p)

SpecConcurrent == InitConcurrent /\ [][NextConcurrent]_vars

\* turns, one at a time, and the thread-deletion cleanup
PersistStep(p) ==
    \/ persist(p)
    \/ generateAndSaveSummary_read(p)
    \/ generateAndSaveSummary_respond(p)
    \/ saveSummary_set(p)
    \/ saveSummary_expire(p)
    \/ saveConversation_read(p)
    \/ saveConversation_set(p)
    \/ saveConversation_expire(p)
    \/ saveConversation_store(p)
    \/ call_clearConversation(p)
    \/ clearConversation_delHistory(p)
    \/ clearConversation_delSummary(p)
    \/ deleteThreadConversations_delete(p)

NextPersist ==
    \/ initialize
    \/ PersistStep(1)
    \/ tick

SpecPersist == InitPersist /\ [][NextPersist]_vars

\* the similarity index alone, two callers at once
IndexStep(p) ==
    \/ call_storeConversation(p)
    \/ saveConversation_store(p)
    \/ call_searchSimilarConversations(p)
    \/ searchSimilarConversations_query(p)
    \/ call_deleteThreadConversations(p)
    \/ deleteThreadConversations_delete(p)

NextIndex ==
    \/ initialize
    \/ \E p \in Procs : IndexStep(p)

SpecIndex == InitIndex /\ [][NextIndex]_vars

\* the judgment functions, called with every answer of the judge
JudgeStep(p) ==
    \/ call_detectTopicChange(p)
    \/ detectTopicChange_respond(p)
    \/ call_verifyResponse(p)
    \/ verifyResponse_respond(p)
    \/ call_detectContextContamination(p)
    \/ detectContextContamination_respond(p)
    \/ call_shouldResetContext(p)

NextJudge == \E p \in {1} : JudgeStep(p)

SpecJudge == InitJudge /\ [][NextJudge]_vars

\* the turns of the bot, one message at a time
TurnAction(p) ==
    \/ call_handleMessage(p)
    \/ handleMessage_createThread(p)
    \/ handleMessage_loading(p)
    \/ handleMessage_getSummary(p)
    \/ turn_loadHistory(p)
    \/ turn_resetCheck(p)
    \/ handleMessage_weather(p)
    \/ generateContext_query(p)
    \/ generateContext_search(p)
    \/ generateContext_summarize(p)
    \/ handleMessage_generate(p)
    \/ turn_verify(p)
    \/ turn_contamination(p)
    \/ handleMessage_deleteLoading(p)
    \/ handleMessage_send(p)
    \/ handleMessage_catchDelete(p)
    \/ handleMessage_catchSend(p)
    \/ generateAndSaveSummary_read(p)
    \/ generateAndSaveSummary_respond(p)
    \/ saveSummary_set(p)
    \/ saveSummary_expire(p)
    \/ saveConversation_read(p)
    \/ saveConversation_set(p)
    \/ saveConversation_expire(p)
    \/ saveConversation_store(p)

NextTurn ==
    \/ initialize
    \/ \E p \in {1} : TurnAction(p)

SpecTurn == InitTurn /\ [][NextTurn]_vars

\* one call at a time, with store calls that throw
NextFaults ==
    \/ initialize
    \/ ContextStep(1)

SpecFaults == InitFaults /\ [][NextFaults]_vars

\* callers of initialize, of a store operation and of disconnect; their
\* awaited steps interleave
LifecycleStep(p) ==
    \/ call_initialize(p)
    \/ call_getSummary(p)
    \/ initialize_connect(p)
    \/ getSummary_get(p)
    \/ call_disconnect(p)
    \/ disconnect_close(p)

NextLifecycle == \E p \in Procs : LifecycleStep(p)

SpecLifecycle == InitLifecycle /\ [][NextLifecycle]_vars

NextChunks == call_splitResponseIntoChunks(1)

SpecChunks == InitChunks /\ [][NextChunks]_vars

\* ================================================================ claims
\* the HistoryRecord of a thread as stored, decoded
HistoryRecord(t) == getConversationHistory(redis, t, TRUE)

HistoryKeyWellFormed(t) ==
    LET k == getThreadKey(t, "history") IN
    redis[k].exists => JSONvalid(redis[k].val)

\* the entries the index holds for a thread
Indexed(t) == WhereThread(collection, t)

\* C1: with maxPairs >= 1 configured, the stored history of every thread
\* has at most 2*maxPairs entries and an even number of them, in every
\* reachable state.
C1_HistoryBound ==
    maxHistoryLength >= 1 =>
        \A t \in Threads :
            /\ HistoryKeyWellFormed(t)
            /\ Len(HistoryRecord(t)) <= 2 * maxHistoryLength
            /\ Len(HistoryRecord(t)) % 2 = 0

\* an append that had to drop the oldest pair: more pairs were saved for
\* the thread than the bound admits, and the record is exactly full
C1_Witness ==
    \E t \in Threads :
        /\ maxHistoryLength >= 1
        /\ Cardinality(Indexed(t)) > maxHistoryLength
        /\ Len(HistoryRecord(t)) = 2 * maxHistoryLength

\* C2: in the stored history of every thread the entries alternate
\* user, assistant, user, assistant, ..., starting with a user entry, also
\* after truncation.
C2_PairAlternation ==
    \A t \in Threads :
        \A i \in 1..Len(HistoryRecord(t)) :
            HistoryRecord(t)[i].role =
                IF i % 2 = 1 THEN "user" ELSE "assistant"

\* a truncated record: its first entry is the user entry of a later call
\* than the thread's first one
C2_Witness ==
    \E t \in Threads :
        /\ maxHistoryLength >= 1
        /\ Cardinality(Indexed(t)) > maxHistoryLength
        /\ HistoryRecord(t) # <<>>
        /\ HistoryRecord(t)[1].role = "user"
        /\ \E e \in Indexed(t) :
              \A i \in 1..Len(HistoryRecord(t)) :
                  HistoryRecord(t)[i].content # e.userMessage

\* the (user, assistant) pair a call carries
PairOf(tk) ==
    <<[role |-> "user", content |-> tk.u],
      [role |-> "assistant", content |-> tk.b]>>

\* the pair is in the record, as two adjacent entries
HoldsPair(h, pair) ==
    \E i \in 1..(Len(h) - 1) : h[i] = pair[1] /\ h[i + 1] = pair[2]

\* the append of the task dropped nothing: the history it read, with the
\* new pair, was within the bound
BelowBound(tk) ==
    maxHistoryLength = 0 \/ Len(tk.seen) + 2 <= 2 * maxHistoryLength

\* two appends on one thread have both returned, neither truncating, and
\* the bound leaves room for both pairs
BothAppended(p, q) ==
    /\ p # q
    /\ task[p].pc = "done" /\ task[p].op = "saveConversation"
    /\ task[q].pc = "done" /\ task[q].op = "saveConversation"
    /\ task[p].t = task[q].t
    /\ maxHistoryLength # 1
    /\ BelowBound(task[p]) /\ BelowBound(task[q])

\* C3: two appends on one thread that both complete (history
\* below the bound) are both in the stored history, however their steps
\* interleave.
C3_AtomicAppend ==
    \A p, q \in Procs :
        BothAppended(p, q) =>
            /\ HoldsPair(HistoryRecord(task[p].t), PairOf(task[p]))
            /\ HoldsPair(HistoryRecord(task[p].t), PairOf(task[q]))

\* the history part of the store is sound for every thread
HistorySound ==
    \A t \in Threads :
        /\ HistoryKeyWellFormed(t)
        /\ maxHistoryLength >= 1 =>
              Len(HistoryRecord(t)) <= 2 * maxHistoryLength
        /\ \A i \in 1..Len(HistoryRecord(t)) :
              HistoryRecord(t)[i].role =
                  IF i % 2 = 1 THEN "user" ELSE "assistant"

\* every change of a history value is the write of one task: the trimmed
\* array computed from the history that task read
WrittenByOneWriter ==
    \A t \in Threads :
        LET k == getThreadKey(t, "history") IN
        (redis'[k].exists /\ redis'[k].val # redis[k].val) =>
            \E p \in Procs :
                /\ task[p].pc = "sc_set"
                /\ task[p].t = t
                /\ redis'[k].val = JSONstringify(
                      SliceLast(task[p].cur \o PairOf(task[p]),
                                maxHistoryLength * 2))

\* C4: under any interleaving of concurrent saveConversation calls, every
\* value stored under a history key is the truncated array one writer
\* computed from the history it read (last writer wins, nothing merged),
\* so the bound and the alternation hold also when an update is lost.
C4_LastWriterWins == [][WrittenByOneWriter]_vars /\ []HistorySound

\* an update has been lost: two appends on one thread both returned, the
\* bound left room for both, and the record holds one pair only
C4_Witness ==
    \E p, q \in Procs :
        /\ BothAppended(p, q)
        /\ Len(HistoryRecord(task[p].t)) = 2
        /\ HoldsPair(HistoryRecord(task[p].t), PairOf(task[p]))
        /\ ~HoldsPair(HistoryRecord(task[p].t), PairOf(task[q]))

\* a key whose value was set and whose expiration is about to be set
BeingWritten(k) ==
    \E p \in Procs :
        \/ task[p].pc = "sc_expire" /\ k = getThreadKey(task[p].t, "history")
        \/ task[p].pc = "ss_expire" /\ k = getThreadKey(task[p].t, "summary")

\* the key a returned call has written, if it wrote one
Wrote(tk, k) ==
    /\ tk.pc = "done"
    /\ \/ tk.op = "saveConversation" /\ k = getThreadKey(tk.t, "history")
       \/ tk.op = "saveSummary" /\ k = getThreadKey(tk.t, "summary")
       \/ /\ tk.op = "generateAndSaveSummary"
          /\ tk.outcome # "failed"
          /\ k = getThreadKey(tk.t, "summary")

\* the remaining time of every stored record is the full expiration less
\* the time since its last write, and a written record carries one
FullExpirationFromLastWrite ==
    /\ \A k \in Keys :
          redis[k].exists =>
              IF redis[k].ttl = 0 THEN BeingWritten(k)
              ELSE redis[k].ttl = expirationTime - sinceWrite[k]
    /\ \A p \in Procs, k \in Keys :
          (Wrote(task[p], k) /\ ~task[p].overlap) =>
              redis[k].exists /\ redis[k].ttl > 0
    /\ \A p \in Procs :
          (task[p].pc = "sc_vec" /\ task[p].op = "saveConversation") =>
              LET k == getThreadKey(task[p].t, "history") IN
              redis[k].exists /\ redis[k].ttl = expirationTime

\* the clock step that completes the expiration time of a record since its
\* last write leaves the record reading as empty
ElapsedReadsEmpty ==
    ((\A p \in Procs : task[p].pc \in {"idle", "done"}) /\ redis' # redis) =>
        \A t \in Threads :
            /\ (/\ redis[getThreadKey(t, "history")].exists
                /\ sinceWrite[getThreadKey(t, "history")] = expirationTime - 1)
                  => getConversationHistory(redis', t, TRUE) = <<>>
            /\ (/\ redis[getThreadKey(t, "summary")].exists
                /\ sinceWrite[getThreadKey(t, "summary")] = expirationTime - 1)
                  => getSummary(redis', t, TRUE) = <<>>

\* C5: every successful write of a history or summary record sets the
\* remaining time-to-live to the full expiration whatever time remained
\* before the write, and the record reads as empty once the expiration has
\* elapsed since the last write.
C5_TTLRefreshOnWrite ==
    []FullExpirationFromLastWrite /\ [][ElapsedReadsEmpty]_vars

\* a history record with one tick left was written again and carries the
\* full expiration
C5_Witness ==
    \E p \in Procs :
        /\ task[p].pc = "sc_vec"
        /\ task[p].op = "saveConversation"
        /\ task[p].ttlBefore = 1
        /\ task[p].ttlBefore < expirationTime
        /\ redis[getThreadKey(task[p].t, "history")].ttl = expirationTime

\* C6: when the model call of generateAndSaveSummary fails, or the model
\* returns empty or whitespace-only output, the summary stored after the
\* call equals the summary stored before it.
C6_RegenerationNonDestructive ==
    \A p \in Procs :
        (/\ task[p].pc = "done"
         /\ task[p].op = "generateAndSaveSummary"
         /\ task[p].outcome \in {"failed", "empty"}
         /\ ~task[p].overlap) =>
            getSummary(redis, task[p].t, TRUE) = task[p].pre

C8_SimilarityThreadIsolation ==
    /\ \A p \in Procs :
          (task[p].pc = "done" /\ task[p].op = "searchSimilarConversations")
              => \A e \in task[p].result : e.threadId = task[p].t
    /\ \A t \in Threads, limit \in SearchLimits :
          \A res \in searchSimilarConversations(collection, t, limit) :
              \A e \in res : e.threadId = t

\* a search returned entries while another thread held an entry whose
\* text is the query
C8_Witness ==
    \E p \in Procs :
        /\ task[p].pc = "done"
        /\ task[p].op = "searchSimilarConversations"
        /\ task[p].result # {}
        /\ \E e \in collection :
              e.threadId # task[p].t /\ e.userMessage = task[p].u

\* all that the stores hold for a thread, expirations included
ThreadState(t) ==
    <<redis[getThreadKey(t, "history")], redis[getThreadKey(t, "summary")],
      WhereThread(collection, t)>>

\* a step changes what is stored for a thread only when it is a step of a
\* call made for that thread
OnlyOwnThreadChanged ==
    \A t \in Threads :
        ThreadState(t)' # ThreadState(t) =>
            \E p \in Procs :
                /\ task[p].pc \notin {"idle", "done"}
                /\ task[p].t = t
                /\ task'[p] # task[p]

\* C9: every store operation performed for one thread leaves the stored
\* history, summary, their expirations and the similarity entries of every
\* other thread unchanged.
C9_PerThreadPartitioning == [][OnlyOwnThreadChanged]_vars

\* calls for two different threads have both returned and each thread
\* holds its own history and index entries
C9_Witness ==
    \E p, q \in Procs :
        /\ task[p].pc = "done" /\ task[q].pc = "done"
        /\ task[p].t # task[q].t
        /\ task[p].op = "saveConversation"
        /\ task[q].op = "saveConversation"
        /\ HoldsPair(HistoryRecord(task[p].t), PairOf(task[p]))
        /\ HoldsPair(HistoryRecord(task[q].t), PairOf(task[q]))
        /\ Len(HistoryRecord(task[p].t)) = 2
        /\ Len(HistoryRecord(task[q].t)) = 2
        /\ Cardinality(Indexed(task[p].t)) = 1
        /\ Cardinality(Indexed(task[q].t)) = 1

\* C10: after clearConversation has returned, the history of the thread is
\* the empty sequence, its summary the empty string, and a similarity
\* query for it returns no entries.
C10_ThreadDeletionCascade ==
    \A p \in Procs :
        (task[p].pc = "done" /\ task[p].op = "clearConversation") =>
            /\ getConversationHistory(redis, task[p].t, TRUE) = <<>>
            /\ getSummary(redis, task[p].t, TRUE) = <<>>
            /\ \A limit \in SearchLimits :
                  searchSimilarConversations(collection, task[p].t, limit)
                      = {{}}

\* a thread that had a history, a summary and index entries was cleared
C10_Witness ==
    \E p \in Procs :
        /\ task[p].pc = "done"
        /\ task[p].op = "clearConversation"
        /\ task[p].had
        /\ Indexed(task[p].t) = {}

\* a call of the judgment function has returned to its caller
Judged(p, op) == task[p].pc = "done" /\ task[p].op = op

\* the text holds no opening brace with a closing brace after it
HasNoBracedPart(text) ==
    ~ \E i, j \in 1..Len(text) : i < j /\ text[i] = Open /\ text[j] = Close

\* C11: when the answer of the model to detectTopicChange holds no JSON
\* object, or the model call fails, the assessment returned is exactly
\* isNewTopic = false, similarity = 50, shouldResetContext = false.
C11_ParseFailureNeutrality ==
    \A p \in Procs :
        (/\ Judged(p, "detectTopicChange")
         /\ \/ task[p].reply.fails
            \/ HasNoBracedPart(task[p].reply.content)) =>
            /\ ~task[p].verdict.threw
            /\ task[p].verdict.value.isNewTopic = Bool(FALSE)
            /\ task[p].verdict.value.similarity = Num(50)
            /\ task[p].verdict.value.shouldResetContext = Bool(FALSE)

\* the model answered with text that opens a brace and never closes it,
\* and the neutral assessment was returned
C11_Witness ==
    \E p \in Procs :
        /\ Judged(p, "detectTopicChange")
        /\ ~task[p].reply.fails
        /\ Positions(task[p].reply.content, Open) # {}
        /\ HasNoBracedPart(task[p].reply.content)
        /\ task[p].verdict.value.similarity = Num(50)

JudgmentFunctions ==
    {"detectTopicChange", "verifyResponse", "detectContextContamination"}

\* the fields of the assessment each judgment function returns
AssessmentFields(op) ==
    CASE op = "detectTopicChange" ->
            {"isNewTopic", "similarity", "analysis", "shouldResetContext"}
      [] op = "verifyResponse" ->
            {"isReliable", "verifiedResponse", "confidenceScore"}
      [] OTHER -> {"isContaminated", "contaminationScore", "cleanedResponse"}

\* C12: detectTopicChange, verifyResponse and detectContextContamination
\* return an assessment for every behaviour of the model (a throw, text
\* without JSON, malformed JSON, an object with missing or wrongly typed
\* fields) and never throw to the caller.
C12_JudgmentsTotal ==
    \A p \in Procs :
        (task[p].pc = "done" /\ task[p].op \in JudgmentFunctions) =>
            /\ ~task[p].verdict.threw
            /\ DOMAIN task[p].verdict.value = AssessmentFields(task[p].op)

\* verifyResponse returned an assessment although the model call threw or
\* the context was null
C12_Witness ==
    \E p \in Procs :
        /\ Judged(p, "verifyResponse")
        /\ task[p].reply.fails \/ task[p].contextData.null
        /\ ~task[p].verdict.threw
        /\ task[p].verdict.value.verifiedResponse = Str(task[p].b)

\* C13: shouldResetContext(similarity, contaminationScore) is true exactly
\* when similarity < 30 or contaminationScore > 70: (30, 70) gives false,
\* (29, 0) and (100, 71) give true.
C13_ResetDecisionRule ==
    \A p \in Procs :
        Judged(p, "shouldResetContext") =>
            LET sim == task[p].similarity
                score == task[p].contaminationScore
                reset == task[p].verdict.value.b
            IN /\ ~task[p].verdict.threw
               /\ reset <=> (sim <= 29 \/ score >= 71)
               /\ (sim = 30 /\ score = 70) => ~reset
               /\ (sim = 29 /\ score = 0) => reset
               /\ (sim = 100 /\ score = 71) => reset

\* the rule was applied on the two thresholds, and did not ask for a reset
C13_Witness ==
    \E p \in Procs :
        /\ Judged(p, "shouldResetContext")
        /\ task[p].similarity = 30
        /\ task[p].contaminationScore = 70
        /\ ~task[p].verdict.value.b

\* what the judgment of the verifier says for a field: Undefined when
\* there is no judgment (model failure, null context, unparsable answer)
VerifierSays(tk, field) ==
    IF tk.reply.fails \/ tk.contextData.null
          \/ extractJsonFromText(tk.reply.content).threw
    THEN Undefined
    ELSE extractJsonFromText(tk.reply.content).value[field]

\* C14, as stated: verifyResponse returns the improvedResponse of the model exactly
\* when the judgment says isReliable = false and holds a non-empty
\* improvedResponse; in every other case the original response is returned
\* unchanged, and on a parse or model failure the result is exactly
\* isReliable = false, confidenceScore = 0, verifiedResponse = original.
C14_VerifierSubstitutionRule ==
    \A p \in Procs :
        Judged(p, "verifyResponse") =>
            LET tk == task[p]
                substitutes ==
                    /\ VerifierSays(tk, "isReliable") = Bool(FALSE)
                    /\ Truthy(VerifierSays(tk, "improvedResponse"))
                failed == \/ tk.reply.fails
                          \/ extractJsonFromText(tk.reply.content).threw
            IN /\ ~tk.verdict.threw
               /\ tk.verdict.value.verifiedResponse =
                      IF substitutes THEN VerifierSays(tk, "improvedResponse")
                      ELSE Str(tk.b)
               /\ failed => tk.verdict.value = VerifyDefault(tk.b)

\* C14, amended: verifyResponse returns the improvedResponse of the model
\* exactly when the parsed judgment has no truthy isReliable (it is false,
\* or the field is missing) and holds a non-empty improvedResponse, and the
\* assessment then says isReliable = false; in every other case the
\* original response is returned unchanged, and on a parse or model
\* failure the result is exactly isReliable = false, confidenceScore = 0,
\* verifiedResponse = original.
C14_FalsyReliabilitySubstitutes ==
    \A p \in Procs :
        Judged(p, "verifyResponse") =>
            LET tk == task[p]
                substitutes ==
                    /\ ~Truthy(VerifierSays(tk, "isReliable"))
                    /\ Truthy(VerifierSays(tk, "improvedResponse"))
                failed == \/ tk.reply.fails
                          \/ extractJsonFromText(tk.reply.content).threw
            IN /\ ~tk.verdict.threw
               /\ tk.verdict.value.verifiedResponse =
                      IF substitutes THEN VerifierSays(tk, "improvedResponse")
                      ELSE Str(tk.b)
               /\ substitutes => tk.verdict.value.isReliable = Bool(FALSE)
               /\ failed => tk.verdict.value = VerifyDefault(tk.b)

\* the judgment held an improvedResponse and no isReliable, and the
\* improved response was returned
C14_Witness ==
    \E p \in Procs :
        /\ Judged(p, "verifyResponse")
        /\ VerifierSays(task[p], "isReliable") = Undefined
        /\ VerifierSays(task[p], "improvedResponse") = Str("improved")
        /\ task[p].verdict.value.verifiedResponse = Str("improved")
        /\ task[p].verdict.value.isReliable = Bool(FALSE)

\* a score is a number within 0..100
InRange(v) == v.ty = "number" /\ v.n >= 0 /\ v.n <= 100

\* C16: the similarity returned by detectTopicChange, the
\* contaminationScore returned by detectContextContamination and the
\* confidenceScore returned by verifyResponse are numbers within 0..100,
\* whatever the model answered.
C16_ScoreRanges ==
    \A p \in Procs :
        /\ Judged(p, "detectTopicChange") =>
              InRange(task[p].verdict.value.similarity)
        /\ Judged(p, "detectContextContamination") =>
              InRange(task[p].verdict.value.contaminationScore)
        /\ Judged(p, "verifyResponse") =>
              InRange(task[p].verdict.value.confidenceScore)

\* ------------------------------------------------------------ the turn
Events(tk) == {tk.trace[i] : i \in 1..Len(tk.trace)}

Occurrences(tk, event) ==
    Cardinality({i \in 1..Len(tk.trace) : tk.trace[i] = event})

InTurn(p) == task[p].op = "handleMessage"

Returned(p) == InTurn(p) /\ task[p].pc = "done"

SearchEvents == {"search_query", "search", "search_summary"}

MatchesKeyword(content) ==
    \E i \in 1..Len(content) :
        content[i] \in dateTimeKeywords \cup weatherKeywords

\* C17: in a turn whose message matches a date/time or weather keyword no
\* search query is generated, no web search is made and no search result
\* is summarized; the web-search sub-flow runs only after the lookup has
\* returned isProcessed = false.
C17_LookupAndSearchExclusive ==
    \A p \in Procs :
        InTurn(p) =>
            /\ MatchesKeyword(task[p].content) =>
                   Events(task[p]) \cap SearchEvents = {}
            /\ Events(task[p]) \cap SearchEvents # {} =>
                   /\ "weather" \in Events(task[p])
                   /\ ~task[p].isProcessed
                   /\ ~MatchesKeyword(task[p].content)

C17_Witness ==
    \E p \in Procs :
        /\ Returned(p)
        /\ MatchesKeyword(task[p].content)
        /\ task[p].isProcessed
        /\ {"weather", "generation", "persist"} \subseteq Events(task[p])

\* C18: when the generation call fails the response of the turn is the
\* empty string, the generation call was made exactly once, and a turn
\* whose transport calls succeed reaches PERSIST, which runs with the
\* empty response.
C18_GenerationFailure ==
    \A p \in Procs :
        (InTurn(p) /\ "generation" \in Events(task[p]) /\ ~task[p].generated)
        => /\ task[p].raw = ""
           /\ task[p].b = ""
           /\ Occurrences(task[p], "generation") = 1
           /\ (task[p].pc = "done" /\ ~task[p].threw)
                  => "persist" \in Events(task[p])
           /\ "persist" \in Events(task[p]) =>
                  Occurrences(task[p], "persist") = 1

C18_Witness ==
    \E p \in Procs :
        /\ Returned(p)
        /\ ~task[p].generated
        /\ ~task[p].threw
        /\ "persist" \in Events(task[p])
        /\ task[p].b = ""

\* the place of each step in the order of a turn
StepOrder ==
    <<"loading", "load", "load_history", "reset_check", "weather",
      "search_query", "search", "search_summary", "generation",
      "verification", "contamination", "delete_loading", "send", "persist">>

Rank(event) == CHOOSE i \in 1..Len(StepOrder) : StepOrder[i] = event

InOrder(tk) ==
    \A i \in 1..(Len(tk.trace) - 1) :
        Rank(tk.trace[i]) < Rank(tk.trace[i + 1])

\* the steps that have finished when a step has run
Before(event) ==
    CASE event = "generation" -> {"load", "load_history", "weather"}
      [] event \in {"verification", "contamination", "delete_loading"}
             -> {"generation"}
      [] event = "persist" -> {"generation", "send"}
      [] OTHER -> {}

Sent(tk) == {tk.sent[i] : i \in 1..Len(tk.sent)}

\* C20: whenever a step of the turn throws after the thread has been
\* obtained, the apology has been sent to the thread when handleMessage
\* returns, unless sending the apology itself failed.
C20_UserVisibleFallback ==
    \A p \in Procs :
        (Returned(p) /\ task[p].threw /\ task[p].thread
             /\ ~task[p].apologyFailed)
        => ErrorMessage \in Sent(task[p])

\* what the judgment of the contamination detector says for a field:
\* Undefined when there is no judgment (model failure, unparsable answer)
DetectorSays(tk, field) ==
    IF tk.reply.fails \/ extractJsonFromText(tk.reply.content).threw
    THEN Undefined
    ELSE extractJsonFromText(tk.reply.content).value[field]

\* the messages of a turn that carry its response
ResponseMessages(tk) == Sent(tk) \ {LoadingText, ErrorMessage}

Rejected(tk) == tk.outcome = "rejected"

\* C21: whatever call of a turn throws (thread creation, a send or a
\* delete of the transport, the store, the model, the apology itself),
\* handleMessage never lets the exception out: a throw in the try block
\* is in the hands of the catch block, and a throw in the catch block is
\* swallowed, so that the handler returns normally.
C21_NeverCrashes ==
    \A p \in Procs :
        InTurn(p) =>
            /\ ~Rejected(task[p])
            /\ task[p].threw =>
                   task[p].pc \in {"hm_catch_delete", "hm_catch_send", "done"}
            /\ task[p].apologyFailed => Returned(p)

C21_Witness ==
    \E p \in Procs :
        /\ Returned(p)
        /\ task[p].threw
        /\ task[p].apologyFailed
        /\ ErrorMessage \notin Sent(task[p])

\* the HistoryRecord of the thread of a turn as it was stored when the
\* message arrived (an expired record is a missing key, read as [])
HistoryAtArrival(tk) ==
    LET k == getThreadKey(tk.t, "history") IN
    IF tk.before.redis[k].exists /\ JSONvalid(tk.before.redis[k].val)
    THEN JSONparse(tk.before.redis[k].val) ELSE <<>>

DetectorDue(tk) == tk.pc = "hm_contamination"
DetectorRan(tk) == "contamination" \in Events(tk)

Sources(tk) == {tk.prompt[i] : i \in 1..Len(tk.prompt)}

\* reset as RESET_CHECK left it: the generation call has been made and
\* the contamination check has not changed the flag
Generated(tk) ==
    "generation" \in Events(tk) /\ "contamination" \notin Events(tk)

\* C24: the prompt of the generation call of a turn with reset = true
\* holds neither the stored summary nor similar conversations; with
\* reset = false it holds the stored summary whenever that is non-empty.
C24_ResetSuppressesContext ==
    \A p \in Procs :
        (InTurn(p) /\ Generated(task[p])) =>
            /\ task[p].reset =>
                   Sources(task[p]) \cap {"summary", "similar"} = {}
            /\ (~task[p].reset /\ task[p].pre # <<>>) =>
                   "summary" \in Sources(task[p])

\* the callers that have invoked client.connect() and await it
Connecting == {p \in Procs : task[p].pc = "in_connect"}

\* the callers that have invoked client.disconnect() and await it
Disconnecting == {p \in Procs : task[p].pc = "ds_disconnect"}

\* C25: connect is never invoked on a connection that is open or being
\* opened, whether initialize is called again, concurrently or lazily by
\* a store operation, and disconnect closes the connection once: a
\* second disconnect does not invoke client.disconnect() again.
C25_ConnectionLifecycle ==
    /\ Cardinality(Connecting) <= 1
    /\ Connecting # {} => ~initialized
    /\ Cardinality(Disconnecting) <= 1

\* the response has been split
Split(p) == task[p].op = "splitResponseIntoChunks" /\ task[p].pc = "done"

\* C26: every chunk splitResponseIntoChunks returns for a response and a
\* maxLength >= 1 has at most maxLength characters.
C26_ChunkSizeBound ==
    \A p \in Procs :
        Split(p) =>
            \A i \in 1..Len(task[p].chunks) :
                Len(task[p].chunks[i]) <= task[p].limit

\* the last n entries of a history: all of it when it has fewer, none of
\* it when n = 0
NewestEntries(h, n) ==
    IF Len(h) <= n THEN h ELSE SubSeq(h, Len(h) - n + 1, Len(h))

\* the history a saveConversation read, followed by its two entries
Appended(tk) ==
    tk.seen \o <<[role |-> "user", content |-> tk.u],
                 [role |-> "assistant", content |-> tk.b]>>

\* saveConversation has written the history and not yet set its expiration
HistoryWritten(p) == task[p].pc = "sc_expire" /\ ~task[p].faulted

\* C27: when saveConversation has written the history, the stored history
\* is the last 2*maxPairs entries of the previously stored history
\* followed by the new user entry and the new assistant entry, for every
\* configured maxPairs; with maxPairs = 0 it is empty.
C27_TruncationKeepsNewest ==
    \A p \in Procs :
        HistoryWritten(p) =>
            /\ HistoryRecord(task[p].t) =
                   NewestEntries(Appended(task[p]), 2 * maxHistoryLength)
            /\ maxHistoryLength = 0 => HistoryRecord(task[p].t) = <<>>

\* the regeneration has stored its summary: the model answered, and the
\* set of saveSummary succeeded
Regenerated(p) ==
    /\ task[p].op = "generateAndSaveSummary"
    /\ task[p].pc = "ss_expire"
    /\ ~task[p].faulted

\* C28: when a regeneration has stored its summary, getSummary of the
\* thread returns the trimmed output of the model and nothing else,
\* whatever summary was stored before.
C28_SummaryReplaced ==
    \A p \in Procs :
        Regenerated(p) =>
            /\ getSummary(redis, task[p].t, TRUE) = task[p].out
            /\ task[p].out \in {trim(content) : content \in ModelOutputs}
            /\ task[p].out = trim(task[p].out)

C28_Witness ==
    \E p \in Procs :
        /\ Regenerated(p)
        /\ task[p].pre = <<"s">>
        /\ task[p].out = <<"t">>
        /\ getSummary(redis, task[p].t, TRUE) = <<"t">>

FirstBalancedBlock(text) ==
    LET opens == Positions(text, Open)
        Depth(from, to) ==
            Cardinality({i \in from..to : text[i] = Open})
            - Cardinality({i \in from..to : text[i] = Close})
        ends == IF opens = {} THEN {}
                ELSE {j \in Min(opens)..Len(text) : Depth(Min(opens), j) = 0}
    IN IF ends = {} THEN <<>> ELSE SubSeq(text, Min(opens), Min(ends))

\* the first balanced block of the text decodes as an object
Decodes(text) ==
    FirstBalancedBlock(text) # <<>> /\ ParsesAsObject(FirstBalancedBlock(text))

\* C30: whenever the first balanced {...} block of the answer of the
\* model decodes as an object, whatever text precedes or follows it, the
\* assessment of detectTopicChange is read from the fields of that block;
\* the neutral default is returned only when no such block decodes.
C30_FirstBalancedBlock ==
    \A p \in Procs :
        (Judged(p, "detectTopicChange") /\ ~task[p].reply.fails) =>
            LET text == task[p].reply.content
                object == ObjectOf(FirstBalancedBlock(text))
                assessment == task[p].verdict.value
            IN /\ Decodes(text) =>
                      /\ assessment.similarity = OrElse(object["similarity"], Num(0))
                      /\ assessment.isNewTopic =
                             OrElse(object["isNewTopic"], Bool(FALSE))
                      /\ assessment.shouldResetContext =
                             OrElse(object["shouldResetContext"], Bool(FALSE))
               /\ assessment = TopicDefault("analysis failed") => ~Decodes(text)

\* no call is in flight
Quiescent == \A p \in Procs : task[p].pc \in {"idle", "done"}

\* neither the history nor the summary of the thread is stored
NoRecords(t) ==
    /\ ~redis[getThreadKey(t, "history")].exists
    /\ ~redis[getThreadKey(t, "summary")].exists

\* C31: whenever no call is in flight and neither the history nor the
\* summary of a thread is stored (never written, cleared or expired), the
\* similarity index holds no entry of the thread.
C31_EntriesNeverOutlive ==
    Quiescent =>
        \A t \in Threads : NoRecords(t) => Indexed(t) = {}

\* C32: whenever no call is in flight, every stored history key and every
\* stored summary key has an expiration, also after a write whose set
\* succeeded and whose expire threw.
C32_NoKeyWithoutExpiration ==
    Quiescent =>
        \A k \in Keys : redis[k].exists => redis[k].ttl > 0

\* the write of saveConversation by task p: client.set has succeeded
Writes(p) == task[p].pc = "sc_set" /\ task'[p].pc = "sc_expire"

\* history new keeps the last n entries of history old, then the new pair
\* of task tk, and drops entries of old only when the limit is reached
KeepsStored(old, new, tk, maxLen) ==
    \E n \in 0..Len(old) :
        /\ new = NewestEntries(old, n) \o
                     <<[role |-> "user", content |-> tk.u],
                       [role |-> "assistant", content |-> tk.b]>>
        /\ n < Len(old) => Len(new) >= 2 * maxLen

\* C33: a successful write of saveConversation stores the last entries of
\* the history stored before it followed by the new pair, dropping stored
\* entries only from the front and only for the limit, also when the read
\* of the current history inside saveConversation has failed.
C33_AppendKeepsStored ==
    [][\A p \in Procs :
          Writes(p) =>
              KeepsStored(HistoryRecord(task[p].t),
                          getConversationHistory(redis', task[p].t, TRUE),
                          task[p], maxHistoryLength)]_vars

\* the write of a regenerated summary by task p: client.set is succeeding
SummaryWrites(p) ==
    /\ task[p].op = "generateAndSaveSummary"
    /\ task[p].pc = "ss_set"
    /\ task'[p].pc = "ss_expire"

\* task q has regenerated and stored a summary of thread t
SummaryStoredBy(q, t) ==
    /\ task[q].op = "generateAndSaveSummary"
    /\ task[q].t = t
    /\ task[q].pc \in {"ss_expire", "done"}
    /\ task[q].outcome \in {"text", "empty"}
    /\ ~task[q].faulted

\* C34: of two regenerations on one thread, the one that writes last has
\* read the summary the other one wrote: at its write, the existing summary
\* it built its input from is the summary stored.
C34_NoLostSummaryUpdate ==
    [][\A p, q \in Procs :
          (p # q /\ SummaryWrites(p) /\ SummaryStoredBy(q, task[p].t)) =>
              task[p].cur = getSummary(redis, task[p].t, TRUE)]_vars

\* the model gave no similarity: it failed, its answer holds no JSON, the
\* JSON found is invalid, or the object has no similarity member
NoSimilarityObtained(reply) ==
    \/ reply.fails
    \/ extractJsonFromText(reply.content).threw
    \/ extractJsonFromText(reply.content).value["similarity"] = Undefined

\* C35: when detectTopicChange obtains no similarity from the model, it
\* returns similarity 50 and shouldResetContext false, and the reset rule
\* applied to that similarity and contamination 0 is false.
C35_FailedJudgmentNeverResets ==
    \A p \in Procs :
        (/\ Judged(p, "detectTopicChange")
         /\ NoSimilarityObtained(task[p].reply)) =>
            /\ ~task[p].verdict.threw
            /\ task[p].verdict.value.similarity = Num(50)
            /\ task[p].verdict.value.shouldResetContext = Bool(FALSE)
            /\ ~shouldResetContext(task[p].verdict.value.similarity.n, 0)

\* C36: when detectContextContamination returns isContaminated = false,
\* the cleanedResponse it returns, if it returns one, is the proposed
\* response it was called with.
C36_UncontaminatedNeverRewritten ==
    \A p \in Procs :
        (/\ Judged(p, "detectContextContamination")
         /\ ~task[p].verdict.threw
         /\ task[p].verdict.value.isContaminated = Bool(FALSE)
         /\ task[p].verdict.value.cleanedResponse # Undefined) =>
            task[p].verdict.value.cleanedResponse = Str(task[p].b)

\* the stores that hold a record of thread t
StoresHolding(t) ==
    {st \in {"history", "summary", "index"} :
        CASE st = "history" -> redis[getThreadKey(t, "history")].exists
          [] st = "summary" -> redis[getThreadKey(t, "summary")].exists
          [] st = "index" -> Indexed(t) # {}}

\* C37: when clearConversation has returned for a thread that had records
\* in all three stores, a store still holds a record of the thread only if
\* its own delete failed: no more stores hold one than store calls have
\* failed, and the call has not thrown.
C37_CleanupStepsIndependent ==
    \A p \in Procs :
        (Judged(p, "clearConversation") /\ task[p].had) =>
            /\ Cardinality(StoresHolding(task[p].t)) <= MaxFaults - faultsLeft
            /\ task[p].outcome # "rejected"

\* the message task p was called with is one handleMessage ignores
Ignored(p) ==
    /\ task[p].op = "handleMessage"
    /\ task[p].authorBot \/ ~task[p].guild

\* C38: for a message of a bot, or one outside a guild, handleMessage has
\* returned at once: no thread is created, nothing is sent, no model or
\* provider is called and the stores are as they were when it arrived.
C38_IgnoredWithoutEffects ==
    \A p \in {1} :
        Ignored(p) =>
            /\ task[p].pc = "done"
            /\ ~task[p].thread
            /\ ~task[p].loadingMessage
            /\ task[p].sent = <<>>
            /\ task[p].trace = <<>>
            /\ task[p].outcome = "none"
            /\ redis = task[p].before.redis
            /\ collection = task[p].before.collection

\* a message of a bot arrived in a guild after a turn had stored a summary
C38_Witness ==
    \E p \in {1} :
        /\ Ignored(p)
        /\ task[p].authorBot
        /\ task[p].guild
        /\ task[p].pc = "done"
        /\ redis[getThreadKey(task[p].t, "summary")].exists

\* the characters of a text that are not whitespace, in order
NonSpace(text) == SelectSeq(text, LAMBDA c : ~IsSpace(c))

\* the chunks concatenated in order
RECURSIVE Concatenated(_)
Concatenated(chunks) ==
    IF chunks = <<>> THEN <<>> ELSE Head(chunks) \o Concatenated(Tail(chunks))

\* C39: for every response and maxLength >= 1, the chunks returned by
\* splitResponseIntoChunks, concatenated in order, hold the non-whitespace
\* characters of the response, each once and in the original order.
C39_ChunkingLosesNothing ==
    \A p \in Procs :
        Split(p) =>
            NonSpace(Concatenated(task[p].chunks)) = NonSpace(task[p].content)

\* a response was cut inside a word and at whitespace that was dropped
C39_Witness ==
    \E p \in Procs :
        /\ Split(p)
        /\ Len(task[p].chunks) >= 3
        /\ Concatenated(task[p].chunks) # task[p].content
        /\ \E i \in 1..(Len(task[p].chunks) - 1) :
               /\ task[p].chunks[i] # <<>>
               /\ task[p].chunks[i + 1] # <<>>
               /\ ~IsSpace(task[p].chunks[i][Len(task[p].chunks[i])])
               /\ ~IsSpace(Head(task[p].chunks[i + 1]))

====
